---- MODULE Spec2Model ----
(***************************************************************************)
(* The Recursive Grid: the 3x3 grid engine (updateGrid) in its two         *)
(* variants, single-step ripple and cascading (breadth-first) ripple.      *)
(*                                                                         *)
(* Grids are JavaScript arrays of arrays, so object identity matters: the  *)
(* model keeps a heap of outer arrays (outer) and row arrays (rowmem) and  *)
(* every grid is a reference into it.                                      *)
(***************************************************************************)
EXTENDS Integers, Sequences, FiniteSets, TLC

VARIABLES
    mode,        \* which updateGrid is linked in: "single" or "cascade"
    outer,       \* heap: outer-array address -> [0..2 -> row address]
    rowmem,      \* heap: row address -> [0..2 -> cell value]
    gridRef,     \* the caller's current grid (gameState.grid)
    pc,          \* "called" | "idle" | "loop"
    argRow,      \* row argument of the current / last call (a JS value)
    argCol,      \* col argument of the current / last call (a JS value)
    inRef,       \* reference passed as grid to the current / last call
    inSnap,      \* cell values of that grid when the call was made
    outRef,      \* reference returned by the last call (0: none yet)
    outcome,     \* "none" | "returned" | "threw" | "malformed"
    newGrid,     \* the working copy of the call in progress (0: none)
    queue,       \* BFS worklist of the cascading variant
    processed,   \* cells already dequeued in this call
    log,         \* one record per ripple-rule evaluation / dequeue of this call
    clicksLeft,  \* calls the driver may still make
    moveCount,   \* gameState.moveCount (move-counting variant)
    isGameOver,  \* gameState.isGameOver
    stateRef,    \* the GameState object the state-level functions last returned
    argGrid,     \* the caller's array passed to createCustomState (0: none)
    candidate,   \* the JS value last passed as grid to a validator / constructor
    api,         \* the last state-level call: its arguments, the state before
                 \* it and what it returned or threw
    sessions,    \* two game sessions: the grid each holds while the other one
                 \* runs, the grids it has gone through, the clicks it has left
    active,      \* the session whose grid is on the heap
    plan         \* the order in which a play's player goes through the cells

\* the state the state-level functions and the sessions work on, besides the
\* grid on the heap
apiVars == <<moveCount, isGameOver, stateRef, argGrid, candidate, api,
             sessions, active, plan>>

vars == <<mode, outer, rowmem, gridRef, pc, argRow, argCol, inRef, inSnap,
          outRef, outcome, newGrid, queue, processed, log, clicksLeft,
          moveCount, isGameOver, stateRef, argGrid, candidate, api,
          sessions, active, plan>>

-----------------------------------------------------------------------------
(* Program constants and bounds *)

GridSize == 3

LockThreshold == 15

MaxClicks == 2

Idx == 0..(GridSize - 1)

Modes == {"single", "cascade"}

\* the three versions of gameState.js: the two engines, and the state module
\* with updateCell / incrementCell and a move counter
Variants == Modes \cup {"moves"}

GridAddrs == {1, 2}

RowAddrs == 1..6

-----------------------------------------------------------------------------
(* JavaScript values passed as row / col *)

Num(n) == [kind |-> "int", v |-> n]

Frac(n) == [kind |-> "frac", v |-> n]      \* the number n + 0.5

Str(n) == [kind |-> "str", v |-> n]        \* the string that spells n

IntCoords == {Num(n) : n \in -1..GridSize}

AnyCoords == IntCoords \cup {Frac(1), Str(0)}

NumberIsInteger(x) == x.kind = "int"

\* x is an own index of a 3-element array (array[x] is not undefined)
HasIndex(x) == x.kind \in {"int", "str"} /\ x.v \in Idx

NaN == [kind |-> "nan", v |-> 0]

Infinity == [kind |-> "inf", v |-> 0]

JsNull == [kind |-> "null", v |-> 0]

\* the array holding the given items
Arr(items) == [kind |-> "array", v |-> 0, items |-> items]

ArrayIsArray(x) == x.kind = "array"

\* typeof x === 'number'
TypeofNumber(x) == x.kind \in {"int", "frac", "nan", "inf"}

\* isNaN(x) for a value whose typeof is 'number'
IsNaN(x) == x.kind = "nan"

\* JavaScript remainder: the sign follows the dividend
JsRem(a, n) == IF a >= 0 THEN a % n ELSE 0 - ((0 - a) % n)

-----------------------------------------------------------------------------
(* Derived predicates *)

\* variant: the threshold itself is not locked
isLockedAbove(value) == value > LockThreshold

isLocked(value) == value >= LockThreshold

\* variant: Number.isInteger is not asked, only the range is compared
isValidPositionNoIntegerCheck(row, col) ==
    /\ row.v >= 0
    /\ row.v < GridSize
    /\ col.v >= 0
    /\ col.v < GridSize

\* variant: the lower bounds are not checked
isValidPositionNoLowerBound(row, col) ==
    /\ NumberIsInteger(row)
    /\ NumberIsInteger(col)
    /\ row.v < GridSize
    /\ col.v < GridSize

\* variant: the upper bounds are not checked
isValidPositionNoUpperBound(row, col) ==
    /\ NumberIsInteger(row)
    /\ NumberIsInteger(col)
    /\ row.v >= 0
    /\ col.v >= 0

isValidPosition(row, col) ==
    /\ NumberIsInteger(row)
    /\ NumberIsInteger(col)
    /\ row.v >= 0
    /\ row.v < GridSize
    /\ col.v >= 0
    /\ col.v < GridSize

\* Array.isArray(grid), grid.length === 3, and every row an array of length 3
\* whose cells all have typeof 'number' and are not NaN
isValidGrid(grid) ==
    IF ~ArrayIsArray(grid)
    THEN FALSE
    ELSE IF Len(grid.items) # GridSize
    THEN FALSE
    ELSE \A k \in 1..Len(grid.items) :
            LET row == grid.items[k]
            IN IF ~ArrayIsArray(row)
               THEN FALSE
               ELSE /\ Len(row.items) = GridSize
                    /\ \A m \in 1..Len(row.items) :
                          TypeofNumber(row.items[m]) /\ ~IsNaN(row.items[m])

-----------------------------------------------------------------------------
(* Heap access *)

Cell(rm, om, g, r, c) == rm[om[g][r]][c]

WriteCell(rm, om, g, r, c, v) == [rm EXCEPT ![om[g][r]][c] = v]

GridContent(rm, om, g) == [i \in Idx |-> [j \in Idx |-> Cell(rm, om, g, i, j)]]

\* the k-th smallest element of a set of addresses
RECURSIVE Nth(_, _)
Nth(S, k) ==
    LET m == CHOOSE x \in S : \A y \in S : x <= y
    IN IF k = 0 THEN m ELSE Nth(S \ {m}, k - 1)

\* the addresses of the three row arrays cloning grid g allocates
CloneRows(om, g) ==
    LET free == RowAddrs \ {om[g][i] : i \in Idx}
    IN [i \in Idx |-> Nth(free, i)]

\* the address of the outer array cloning grid g allocates
CloneOuter(g) == CHOOSE a \in GridAddrs : a # g

\* variant: no copy at all, the working grid is the input grid
CloneGridInPlace(rm, om, g) ==
    LET old == {om[g][i] : i \in Idx}
    IN [ref |-> g,
        om |-> [a \in {g} |-> om[g]],
        rm |-> [a \in old |-> rm[a]]]

\* variant: [...grid], a new outer array sharing the input's rows
CloneGridShallow(rm, om, g) ==
    LET ng == CloneOuter(g)
        old == {om[g][i] : i \in Idx}
    IN [ref |-> ng,
        om |-> [a \in {g, ng} |-> om[g]],
        rm |-> [a \in old |-> rm[a]]]

\* grid.map(r => [...r]): a new outer array whose rows are new arrays holding
\* the values of g's rows; what is unreachable from g is reclaimed
CloneGrid(rm, om, g) ==
    LET ng == CloneOuter(g)
        rows == CloneRows(om, g)
        old == {om[g][i] : i \in Idx}
        new == {rows[i] : i \in Idx}
    IN [ref |-> ng,
        om |-> [a \in {g, ng} |-> IF a = ng THEN rows ELSE om[g]],
        rm |-> [a \in old \cup new |->
                  IF a \in old THEN rm[a]
                  ELSE rm[om[g][CHOOSE i \in Idx : rows[i] = a]]]]

-----------------------------------------------------------------------------
(* One record per evaluation of a cell's ripple rules *)

LogEntry(r, c, orig, skipped, value, right, below) ==
    [row |-> r, col |-> c, isOriginalClick |-> orig, skipped |-> skipped,
     value |-> value, right |-> right, below |-> below]

-----------------------------------------------------------------------------
(* The ripple rules, shared by both variants *)

\* variant: the value is not tested for divisibility by 3
RippleRightAnyValue(rm, om, g, r, c, value) ==
    /\ isValidPosition(Num(r), Num(c + 1))
    /\ ~isLocked(Cell(rm, om, g, r, c + 1))

\* variant: the right neighbour's lock is not checked
RippleRightIgnoringLock(rm, om, g, r, c, value) ==
    /\ JsRem(value, 3) = 0
    /\ isValidPosition(Num(r), Num(c + 1))

\* the rule "divisible by 3 -> decrement RIGHT neighbour" writes for value at (r, c)
RippleRight(rm, om, g, r, c, value) ==
    /\ JsRem(value, 3) = 0
    /\ isValidPosition(Num(r), Num(c + 1))
    /\ ~isLocked(Cell(rm, om, g, r, c + 1))

\* variant: the below neighbour's lock is not checked
RippleBelowIgnoringLock(rm, om, g, r, c, value) ==
    /\ JsRem(value, 5) = 0
    /\ isValidPosition(Num(r + 1), Num(c))

\* the rule "divisible by 5 -> increment BELOW neighbour by 2" writes for value at (r, c)
RippleBelow(rm, om, g, r, c, value) ==
    /\ JsRem(value, 5) = 0
    /\ isValidPosition(Num(r + 1), Num(c))
    /\ ~isLocked(Cell(rm, om, g, r + 1, c))

\* variant: the right neighbour loses 2
ApplyRightByTwo(rm, om, g, r, c) ==
    WriteCell(rm, om, g, r, c + 1, Cell(rm, om, g, r, c + 1) - 2)

ApplyRight(rm, om, g, r, c) ==
    WriteCell(rm, om, g, r, c + 1, Cell(rm, om, g, r, c + 1) - 1)

\* variant: the below neighbour gains 1
ApplyBelowByOne(rm, om, g, r, c) ==
    WriteCell(rm, om, g, r + 1, c, Cell(rm, om, g, r + 1, c) + 1)

\* variant: the rule writes the neighbour above, (r - 1, c), when there is one
ApplyBelowUpward(rm, om, g, r, c) ==
    IF r > 0 THEN WriteCell(rm, om, g, r - 1, c, Cell(rm, om, g, r - 1, c) + 2) ELSE rm

ApplyBelow(rm, om, g, r, c) ==
    WriteCell(rm, om, g, r + 1, c, Cell(rm, om, g, r + 1, c) + 2)

\* variant: "else if", the below rule is tried only when the right rule did not fire
RippleStepExclusive(rm, om, g, r, c, value) ==
    LET fireR == value # 0 /\ RippleRight(rm, om, g, r, c, value)
        rm1 == IF fireR THEN ApplyRight(rm, om, g, r, c) ELSE rm
        fireB == ~fireR /\ value # 0 /\ RippleBelow(rm1, om, g, r, c, value)
        rm2 == IF fireB THEN ApplyBelow(rm1, om, g, r, c) ELSE rm1
    IN [rm |-> rm2, right |-> fireR, below |-> fireB]

\* variant: a locked right neighbour ends the evaluation, the below rule is not tried
RippleStepStopAtLocked(rm, om, g, r, c, value) ==
    LET fireR == value # 0 /\ RippleRight(rm, om, g, r, c, value)
        rm1 == IF fireR THEN ApplyRight(rm, om, g, r, c) ELSE rm
        stop == /\ value # 0
                /\ JsRem(value, 3) = 0
                /\ isValidPosition(Num(r), Num(c + 1))
                /\ isLocked(Cell(rm, om, g, r, c + 1))
        fireB == ~stop /\ value # 0 /\ RippleBelow(rm1, om, g, r, c, value)
        rm2 == IF fireB THEN ApplyBelow(rm1, om, g, r, c) ELSE rm1
    IN [rm |-> rm2, right |-> fireR, below |-> fireB]

\* variant: the safety guard is "value > 0", negative values never ripple
RippleStepPositiveOnly(rm, om, g, r, c, value) ==
    LET fireR == value > 0 /\ RippleRight(rm, om, g, r, c, value)
        rm1 == IF fireR THEN ApplyRight(rm, om, g, r, c) ELSE rm
        fireB == value > 0 /\ RippleBelow(rm1, om, g, r, c, value)
        rm2 == IF fireB THEN ApplyBelow(rm1, om, g, r, c) ELSE rm1
    IN [rm |-> rm2, right |-> fireR, below |-> fireB]

\* variant: a cell that is itself locked does not ripple
RippleStepUnlessLocked(rm, om, g, r, c, value) ==
    LET fireR == value # 0 /\ ~isLocked(value) /\ RippleRight(rm, om, g, r, c, value)
        rm1 == IF fireR THEN ApplyRight(rm, om, g, r, c) ELSE rm
        fireB == value # 0 /\ ~isLocked(value) /\ RippleBelow(rm1, om, g, r, c, value)
        rm2 == IF fireB THEN ApplyBelow(rm1, om, g, r, c) ELSE rm1
    IN [rm |-> rm2, right |-> fireR, below |-> fireB]

\* variant: no safety guard, 0 counts as divisible by 3 and by 5
RippleStepNoZeroGuard(rm, om, g, r, c, value) ==
    LET fireR == RippleRight(rm, om, g, r, c, value)
        rm1 == IF fireR THEN ApplyRight(rm, om, g, r, c) ELSE rm
        fireB == RippleBelow(rm1, om, g, r, c, value)
        rm2 == IF fireB THEN ApplyBelow(rm1, om, g, r, c) ELSE rm1
    IN [rm |-> rm2, right |-> fireR, below |-> fireB]

\* both rules evaluated for the cell (r, c) holding value; the below rule reads
\* the grid the right rule has already written
RippleStep(rm, om, g, r, c, value) ==
    LET fireR == value # 0 /\ RippleRight(rm, om, g, r, c, value)
        rm1 == IF fireR THEN ApplyRight(rm, om, g, r, c) ELSE rm
        fireB == value # 0 /\ RippleBelow(rm1, om, g, r, c, value)
        rm2 == IF fireB THEN ApplyBelow(rm1, om, g, r, c) ELSE rm1
    IN [rm |-> rm2, right |-> fireR, below |-> fireB]

\* variant: a ripple of the same click feeds back, the clicked cell gains 2
IncrementByTwo(rm, om, g, r, c) == WriteCell(rm, om, g, r, c, Cell(rm, om, g, r, c) + 2)

Increment(rm, om, g, r, c) == WriteCell(rm, om, g, r, c, Cell(rm, om, g, r, c) + 1)

\* what a rule does when its bounds check lets a target outside the grid pass:
\* newGrid[r][3] is undefined, not locked, and "-= 1" stores NaN in a fourth
\* cell of the row ("malformed"); newGrid[3] is undefined and newGrid[3][c]
\* raises a TypeError ("threw")
RippleFault(r, c, value) ==
    IF value # 0 /\ JsRem(value, 3) = 0
       /\ isValidPosition(Num(r), Num(c + 1)) /\ ~HasIndex(Num(c + 1))
    THEN "malformed"
    ELSE IF value # 0 /\ JsRem(value, 5) = 0
            /\ isValidPosition(Num(r + 1), Num(c)) /\ ~HasIndex(Num(r + 1))
    THEN "threw"
    ELSE "none"

-----------------------------------------------------------------------------
(* Initial states *)

UniformGrid(v) == [i \in Idx |-> [j \in Idx |-> v]]

\* a grid written as its three rows
FromRows(rows) == [i \in Idx |-> [j \in Idx |-> rows[i + 1][j + 1]]]

\* a grid with a at (r, c), b to its right, d below it and e everywhere else
GridAround(r, c, a, b, d, e) ==
    [i \in Idx |-> [j \in Idx |->
        IF i = r /\ j = c THEN a
        ELSE IF i = r /\ j = c + 1 THEN b
        ELSE IF i = r + 1 /\ j = c THEN d
        ELSE e]]

\* Bounds on the inputs: the value every cell of a session's first grid holds,
\* and the values a call's grid holds at the clicked cell, to its right, below
\* it and elsewhere
SeedVals == {0, 2, 4, 13, 14}

ClickedVals == {-16, -1, 0, 2, 4, 6, 14, 15, 16}

RightVals == {-2, 0, 1, 4, 6, 15}

BelowVals == {-7, -2, 0, 1, 13, 15}

RestVals == {0, 4, 13}

\* the heap holding one grid with the given cells, at address 1 with rows 1..3
HeapInit(cells) ==
    /\ outer = [a \in {1} |-> [i \in Idx |-> i + 1]]
    /\ rowmem = [a \in 1..GridSize |-> cells[a - 1]]
    /\ gridRef = 1

\* no state-level call was made yet
NoCall == [op |-> "none"]

\* no play is going on
NoPlan == [style |-> "none"]

ApiInit ==
    /\ moveCount = 0
    /\ isGameOver = FALSE
    /\ stateRef = 1
    /\ argGrid = 0
    /\ api = NoCall
    /\ sessions = <<>>
    /\ active = 1
    /\ plan = NoPlan

GhostInit ==
    /\ ApiInit
    /\ candidate = JsNull
    /\ inRef = 0
    /\ inSnap = UniformGrid(0)
    /\ outRef = 0
    /\ outcome = "none"
    /\ newGrid = 0
    /\ queue = <<>>
    /\ processed = {}
    /\ log = <<>>

\* a session: a game state created on a grid of one value (createInitialState
\* for 0, createCustomState otherwise), clicked MaxClicks times
Init ==
    /\ mode \in Modes
    /\ \E v \in SeedVals : HeapInit(UniformGrid(v))
    /\ pc = "idle"
    /\ argRow = Num(0)
    /\ argCol = Num(0)
    /\ clicksLeft = MaxClicks
    /\ GhostInit

\* one call updateGrid(grid, row, col) on inputs drawn from bounded sets
InitCall ==
    /\ mode \in Modes
    /\ argRow \in AnyCoords
    /\ argCol \in AnyCoords
    /\ \E a \in ClickedVals, b \in RightVals, d \in BelowVals, e \in RestVals :
          IF isValidPosition(argRow, argCol)
          THEN HeapInit(GridAround(argRow.v, argCol.v, a, b, d, e))
          ELSE b = 0 /\ d = 0 /\ HeapInit(GridAround(0, 0, a, b, d, e))
    /\ pc = "called"
    /\ clicksLeft = 1
    /\ GhostInit

-----------------------------------------------------------------------------
(* updateGrid *)

\* variant: every queued cell is tagged as the original click
QueueItemAlwaysOriginal(r, c, orig) == [row |-> r, col |-> c, isOriginalClick |-> TRUE]

QueueItem(r, c, orig) == [row |-> r, col |-> c, isOriginalClick |-> orig]

\* variant: queue[0] is read and left in the queue
DequeuePeek(q) == q

\* queue.shift(): the queue without its head
Dequeue(q) == Tail(q)

\* variant: the processed set is never consulted
NeverProcessed(cellKey, done) == FALSE

\* processed.has(cellKey)
AlreadyProcessed(cellKey, done) == cellKey \in done

\* variant: no affected cell is queued
PushedNone(st, r, c) == <<>>

\* variant: a cell already waiting in the queue is not pushed again
PushedUnlessQueued(st, r, c) ==
    LET waiting == {<<queue[k].row, queue[k].col>> : k \in 1..Len(queue)}
    IN (IF st.right /\ <<r, c + 1>> \notin waiting
        THEN <<QueueItem(r, c + 1, FALSE)>> ELSE <<>>)
       \o (IF st.below /\ <<r + 1, c>> \notin waiting
           THEN <<QueueItem(r + 1, c, FALSE)>> ELSE <<>>)

\* the cells one evaluation pushes: the right neighbour, then the below one
Pushed(st, r, c) ==
    (IF st.right THEN <<QueueItem(r, c + 1, FALSE)>> ELSE <<>>)
    \o (IF st.below THEN <<QueueItem(r + 1, c, FALSE)>> ELSE <<>>)

\* variant: queue.unshift, the affected cells go to the front of the queue
EnqueueFirst(q, items) == items \o q

\* queue.push: the affected cells go to the back of the queue
Enqueue(q, items) == q \o items

\* what every call records about its arguments
Called(row, col) ==
    /\ argRow' = row
    /\ argCol' = col
    /\ inRef' = gridRef
    /\ inSnap' = GridContent(rowmem, outer, gridRef)
    /\ clicksLeft' = clicksLeft - 1
    /\ mode' = mode

\* "return grid": the guards' no-op, the caller keeps its grid
ReturnOriginal ==
    /\ outRef' = gridRef
    /\ outcome' = "returned"
    /\ pc' = "idle"
    /\ newGrid' = 0
    /\ queue' = <<>>
    /\ processed' = {}
    /\ log' = <<>>
    /\ UNCHANGED <<outer, rowmem, gridRef>>

\* grid[row] is undefined, so grid[row][col] raises a TypeError
ThrowTypeError ==
    /\ outRef' = 0
    /\ outcome' = "threw"
    /\ pc' = "idle"
    /\ newGrid' = 0
    /\ queue' = <<>>
    /\ processed' = {}
    /\ log' = <<>>
    /\ UNCHANGED <<outer, rowmem, gridRef>>

\* grid[row][col] is undefined: the clone gets a NaN property outside the
\* 3x3 cells and is returned
ReturnMalformed ==
    LET h == CloneGrid(rowmem, outer, gridRef)
    IN /\ outer' = h.om
       /\ rowmem' = h.rm
       /\ gridRef' = h.ref
       /\ outRef' = h.ref
       /\ outcome' = "malformed"
       /\ pc' = "idle"
       /\ newGrid' = 0
       /\ queue' = <<>>
       /\ processed' = {}
       /\ log' = <<>>

\* variant: the right neighbour's rules are evaluated too after it was written
SingleStepRecursing(r, c) ==
    LET h == CloneGrid(rowmem, outer, gridRef)
        rm1 == Increment(h.rm, h.om, h.ref, r, c)
        newValue == Cell(rm1, h.om, h.ref, r, c)
        st == RippleStep(rm1, h.om, h.ref, r, c, newValue)
        st2 == IF st.right
               THEN RippleStep(st.rm, h.om, h.ref, r, c + 1,
                               Cell(st.rm, h.om, h.ref, r, c + 1))
               ELSE st
    IN /\ outer' = h.om
       /\ pc' = "idle"
       /\ newGrid' = 0
       /\ queue' = <<>>
       /\ processed' = {}
       /\ rowmem' = st2.rm
       /\ gridRef' = h.ref
       /\ outRef' = h.ref
       /\ outcome' = "returned"
       /\ log' = <<LogEntry(r, c, TRUE, FALSE, newValue, st.right, st.below)>>

\* the single-step variant: increment, both rules for the clicked cell, return
SingleStep(r, c) ==
    \E h \in {CloneGrid(rowmem, outer, gridRef)} :
    LET rm1 == Increment(h.rm, h.om, h.ref, r, c)
        newValue == Cell(rm1, h.om, h.ref, r, c)
        st == RippleStep(rm1, h.om, h.ref, r, c, newValue)
        fault == RippleFault(r, c, newValue)
    IN /\ outer' = h.om
       /\ pc' = "idle"
       /\ newGrid' = 0
       /\ queue' = <<>>
       /\ processed' = {}
       /\ IF fault # "none"
          THEN /\ rowmem' = rm1
               /\ gridRef' = IF fault = "threw" THEN gridRef ELSE h.ref
               /\ outRef' = IF fault = "threw" THEN 0 ELSE h.ref
               /\ outcome' = fault
               /\ log' = <<LogEntry(r, c, TRUE, FALSE, newValue,
                                    fault = "malformed", fault = "threw")>>
          ELSE /\ rowmem' = st.rm
               /\ gridRef' = h.ref
               /\ outRef' = h.ref
               /\ outcome' = "returned"
               /\ log' = <<LogEntry(r, c, TRUE, FALSE, newValue, st.right, st.below)>>

\* variant: the processed set is a module-level Set, never cleared
CascadeStartKeepingProcessed(r, c) ==
    LET h == CloneGrid(rowmem, outer, gridRef)
    IN /\ outer' = h.om
       /\ rowmem' = h.rm
       /\ newGrid' = h.ref
       /\ queue' = <<QueueItem(r, c, TRUE)>>
       /\ processed' = processed
       /\ log' = <<>>
       /\ pc' = "loop"
       /\ outcome' = "none"
       /\ outRef' = 0
       /\ UNCHANGED gridRef

\* the cascading variant up to its while loop: clone, queue the clicked cell
CascadeStart(r, c) ==
    LET h == CloneGrid(rowmem, outer, gridRef)
    IN /\ outer' = h.om
       /\ rowmem' = h.rm
       /\ newGrid' = h.ref
       /\ queue' = <<QueueItem(r, c, TRUE)>>
       /\ processed' = {}
       /\ log' = <<>>
       /\ pc' = "loop"
       /\ outcome' = "none"
       /\ outRef' = 0
       /\ UNCHANGED gridRef

updateGrid(row, col) ==
    /\ Called(row, col)
    /\ IF ~isValidPosition(row, col) THEN ReturnOriginal
       ELSE IF ~HasIndex(row) THEN ThrowTypeError
       ELSE IF ~HasIndex(col) THEN ReturnMalformed
       ELSE IF isLocked(Cell(rowmem, outer, gridRef, row.v, col.v)) THEN ReturnOriginal
       ELSE IF mode = "single" THEN SingleStep(row.v, col.v)
       ELSE CascadeStart(row.v, col.v)

\* one iteration of the cascading variant's while loop
ProcessQueue ==
    /\ pc = "loop"
    /\ queue # <<>>
    /\ LET current == Head(queue)
           r == current.row
           c == current.col
           cellKey == <<r, c>>
           rm1 == IF current.isOriginalClick
                  THEN Increment(rowmem, outer, newGrid, r, c)
                  ELSE rowmem
           value == Cell(rm1, outer, newGrid, r, c)
           st == RippleStep(rm1, outer, newGrid, r, c, value)
           fault == RippleFault(r, c, value)
       IN IF AlreadyProcessed(cellKey, processed)
          THEN /\ queue' = Dequeue(queue)
               /\ log' = Append(log, LogEntry(r, c, current.isOriginalClick, TRUE,
                                              Cell(rowmem, outer, newGrid, r, c),
                                              FALSE, FALSE))
               /\ UNCHANGED <<rowmem, processed, gridRef, pc, outRef, outcome, newGrid>>
          ELSE IF fault # "none"
          THEN /\ processed' = processed \cup {cellKey}
               /\ rowmem' = rm1
               /\ queue' = <<>>
               /\ log' = Append(log, LogEntry(r, c, current.isOriginalClick, FALSE,
                                              value, fault = "malformed", fault = "threw"))
               /\ gridRef' = IF fault = "threw" THEN gridRef ELSE newGrid
               /\ outRef' = IF fault = "threw" THEN 0 ELSE newGrid
               /\ outcome' = fault
               /\ pc' = "idle"
               /\ newGrid' = 0
          ELSE /\ processed' = processed \cup {cellKey}
               /\ rowmem' = st.rm
               /\ queue' = Enqueue(Dequeue(queue), Pushed(st, r, c))
               /\ log' = Append(log, LogEntry(r, c, current.isOriginalClick, FALSE,
                                              value, st.right, st.below))
               /\ UNCHANGED <<gridRef, pc, outRef, outcome, newGrid>>
    /\ UNCHANGED <<mode, outer, argRow, argCol, inRef, inSnap, clicksLeft>>
    /\ UNCHANGED apiVars

\* the queue is empty: "return newGrid", and the caller takes the new grid
ReturnNewGrid ==
    /\ pc = "loop"
    /\ queue = <<>>
    /\ outRef' = newGrid
    /\ gridRef' = IF newGrid # gridRef THEN newGrid ELSE gridRef
    /\ outcome' = "returned"
    /\ pc' = "idle"
    /\ newGrid' = 0
    /\ UNCHANGED <<mode, outer, rowmem, argRow, argCol, inRef, inSnap, queue,
                   processed, log, clicksLeft>>
    /\ UNCHANGED apiVars

\* the caller of a session: a click on any cell, or beside the grid
handleCellClick ==
    /\ pc = "idle"
    /\ clicksLeft > 0
    /\ \E row \in IntCoords, col \in IntCoords : updateGrid(row, col)
    /\ UNCHANGED apiVars

\* the call whose arguments Init drew
CallUpdateGrid ==
    /\ pc = "called"
    /\ updateGrid(argRow, argCol)
    /\ UNCHANGED apiVars

Next == handleCellClick \/ ProcessQueue \/ ReturnNewGrid

Spec == Init /\ [][Next]_vars

NextCall == CallUpdateGrid \/ ProcessQueue \/ ReturnNewGrid

CallSpec == InitCall /\ [][NextCall]_vars

\* Bound: how many clicks a play may make
MaxPlay == 250

\* the cells of the caller's grid that hold less than the lock threshold
UnlockedCells ==
    {p \in Idx \X Idx : ~isLocked(Cell(rowmem, outer, gridRef, p[1], p[2]))}

CellCount == GridSize * GridSize

\* the nine cells read row by row, and column by column
RowByRow == [k \in 1..CellCount |-> <<(k - 1) \div GridSize, (k - 1) % GridSize>>]

ColumnByColumn == [k \in 1..CellCount |-> <<(k - 1) % GridSize, (k - 1) \div GridSize>>]

\* the order o started n cells later, and read backwards
Rotate(o, n) == [k \in 1..CellCount |-> o[((k - 1 + n) % CellCount) + 1]]

Reverse(o) == [k \in 1..CellCount |-> o[CellCount + 1 - k]]

\* the orders in which a player goes through the cells
Orders ==
    LET forward == {Rotate(o, n) : o \in {RowByRow, ColumnByColumn}, n \in 0..(CellCount - 1)}
    IN forward \cup {Reverse(o) : o \in forward}

\* "stay": click the first unlocked cell of the order until it locks;
\* "cycle": click the unlocked cells one after the other, round and round
Styles == {"stay", "cycle"}

\* the cell the player clicks next: an unlocked one
Target ==
    LET o == plan.order
        last == CHOOSE k \in 1..CellCount : o[k] = <<argRow.v, argCol.v>>
        from == IF plan.style = "cycle" THEN last ELSE 0
        ahead == {d \in 1..CellCount : Rotate(o, from)[d] \in UnlockedCells}
    IN Rotate(o, from)[CHOOSE d \in ahead : \A e \in ahead : d <= e]

\* a play: the page starts on createInitialState's grid
InitPlay ==
    /\ mode \in Modes
    /\ HeapInit(UniformGrid(0))
    /\ pc = "idle"
    /\ \E o \in Orders, st \in Styles :
          /\ plan = [style |-> st, order |-> o]
          /\ argRow = Num(o[CellCount][1])
          /\ argCol = Num(o[CellCount][2])
    /\ clicksLeft = MaxPlay
    /\ moveCount = 0
    /\ isGameOver = FALSE
    /\ stateRef = 1
    /\ argGrid = 0
    /\ api = NoCall
    /\ sessions = <<>>
    /\ active = 1
    /\ candidate = JsNull
    /\ inRef = 0
    /\ inSnap = UniformGrid(0)
    /\ outRef = 0
    /\ outcome = "none"
    /\ newGrid = 0
    /\ queue = <<>>
    /\ processed = {}
    /\ log = <<>>

\* the player clicks a cell that is not locked
PlayClick ==
    /\ pc = "idle"
    /\ clicksLeft > 0
    /\ UnlockedCells # {}
    /\ \E p \in {Target} : updateGrid(Num(p[1]), Num(p[2]))
    /\ UNCHANGED apiVars

\* all cells are locked and the last click was accepted: the player tries
\* one more click, on any cell
LockedClick ==
    /\ pc = "idle"
    /\ clicksLeft > 0
    /\ UnlockedCells = {}
    /\ outRef # inRef
    /\ \E p \in Idx \X Idx : updateGrid(Num(p[1]), Num(p[2]))
    /\ UNCHANGED apiVars

NextPlay == PlayClick \/ LockedClick \/ ProcessQueue \/ ReturnNewGrid

PlaySpec == InitPlay /\ [][NextPlay]_vars

\* the player keeps clicking, and a call that was started runs to its return
FairPlaySpec == InitPlay /\ [][NextPlay]_vars /\ WF_vars(NextPlay)

\* Bound: how often the same cell is clicked in a row
RepeatClicks == 17

\* the initial all-zero grid and one cell that every click of the run targets
InitRepeat ==
    /\ mode \in Modes
    /\ HeapInit(UniformGrid(0))
    /\ pc = "idle"
    /\ argRow \in {Num(i) : i \in Idx}
    /\ argCol \in {Num(j) : j \in Idx}
    /\ clicksLeft = RepeatClicks
    /\ GhostInit

\* the next click on the same cell, on the grid the previous click returned
RepeatClick ==
    /\ pc = "idle"
    /\ clicksLeft > 0
    /\ updateGrid(argRow, argCol)
    /\ UNCHANGED apiVars

NextRepeat == RepeatClick \/ ProcessQueue \/ ReturnNewGrid

RepeatSpec == InitRepeat /\ [][NextRepeat]_vars

\* Bounds on the values passed to isValidGrid: non-arrays, arrays of the wrong
\* length, rows that are not arrays or have the wrong length, and 3x3 arrays
\* with one cell of each kind of JS value
ZeroRow == Arr(<<Num(0), Num(0), Num(0)>>)

GridWith(cell) == Arr(<<ZeroRow, Arr(<<Num(0), cell, Num(0)>>), ZeroRow>>)

ShortRow == Arr(<<Num(0), Num(0)>>)

LongRow == Arr(<<Num(0), Num(0), Num(0), Num(0)>>)

Candidates ==
    {JsNull, Str(0), Num(3), Arr(<<>>),
     Arr(<<ZeroRow, ZeroRow>>),
     Arr(<<ShortRow, ShortRow>>),
     Arr(<<ZeroRow, ZeroRow, ZeroRow, ZeroRow>>),
     Arr(<<ZeroRow, ShortRow, ZeroRow>>),
     Arr(<<ZeroRow, ZeroRow, LongRow>>),
     Arr(<<ZeroRow, Num(0), ZeroRow>>),
     Arr(<<JsNull, ZeroRow, ZeroRow>>),
     GridWith(Num(0)), GridWith(Num(-7)), GridWith(Num(16)), GridWith(Frac(1)),
     GridWith(Str(0)), GridWith(NaN), GridWith(Infinity), GridWith(JsNull),
     GridWith(Arr(<<>>))}

\* the validators called on drawn arguments; they are the same in the three
\* versions of gameState.js
InitValidator ==
    /\ mode \in Variants
    /\ HeapInit(UniformGrid(0))
    /\ pc = "idle"
    /\ argRow \in AnyCoords
    /\ argCol \in AnyCoords
    /\ clicksLeft = 0
    /\ candidate \in Candidates
    /\ ApiInit
    /\ inRef = 0
    /\ inSnap = UniformGrid(0)
    /\ outRef = 0
    /\ outcome = "none"
    /\ newGrid = 0
    /\ queue = <<>>
    /\ processed = {}
    /\ log = <<>>

CallIsValidGrid ==
    /\ api' = [op |-> "isValidGrid", ret |-> isValidGrid(candidate)]
    /\ UNCHANGED <<mode, outer, rowmem, gridRef, pc, argRow, argCol, inRef, inSnap,
                   outRef, outcome, newGrid, queue, processed, log, clicksLeft,
                   moveCount, isGameOver, stateRef, argGrid, candidate,
                   sessions, active, plan>>

CallIsValidPosition ==
    /\ api' = [op |-> "isValidPosition", ret |-> isValidPosition(argRow, argCol)]
    /\ UNCHANGED <<mode, outer, rowmem, gridRef, pc, argRow, argCol, inRef, inSnap,
                   outRef, outcome, newGrid, queue, processed, log, clicksLeft,
                   moveCount, isGameOver, stateRef, argGrid, candidate,
                   sessions, active, plan>>

NextValidator == CallIsValidGrid \/ CallIsValidPosition

ValidatorSpec == InitValidator /\ [][NextValidator]_vars

-----------------------------------------------------------------------------
(* The state-level functions of gameState.js *)

\* the grid literal of createInitialState: 1..9 in src/app/gameState.js, zeros
\* in the two engine versions
InitialGrid(variant) ==
    IF variant = "moves"
    THEN FromRows(<<<<1, 2, 3>>, <<4, 5, 6>>, <<7, 8, 9>>>>)
    ELSE UniformGrid(0)

\* a new array of new rows holding cells; the grid g it replaces is reclaimed
AllocGrid(om, g, cells) ==
    LET ng == CloneOuter(g)
        rows == CloneRows(om, g)
    IN [ref |-> ng,
        om |-> [a \in {ng} |-> rows],
        rm |-> [a \in {rows[i] : i \in Idx} |->
                  cells[CHOOSE i \in Idx : rows[i] = a]]]

\* the object a "return { ... }" creates: not the one the caller holds
NewState(ref) == 3 - ref

\* the caller's state before a call
Pre ==
    [grid |-> GridContent(rowmem, outer, gridRef), gridRef |-> gridRef,
     rows |-> {outer[gridRef][i] : i \in Idx},
     moveCount |-> moveCount, isGameOver |-> isGameOver, stateRef |-> stateRef]

\* the record of a state-level call
ApiCall(op, row, col, error, ret) ==
    [op |-> op, row |-> row, col |-> col, error |-> error, ret |-> ret, pre |-> Pre]

JsUndefined == [kind |-> "undefined", v |-> 0]

\* the cells of a 3x3 array of integers
CellsOf(x) == [i \in Idx |-> [j \in Idx |-> x.items[i + 1].items[j + 1].v]]

AllIntegerCells(x) ==
    \A k \in 1..Len(x.items) : \A m \in 1..Len(x.items[k].items) :
        x.items[k].items[m].kind = "int"

\* the array literal holding the given cells
ToJs(cells) ==
    Arr([k \in 1..GridSize |-> Arr([m \in 1..GridSize |-> Num(cells[k - 1][m - 1])])])

\* Bounds on the arguments of createCustomState, updateCell and incrementCell
CustomCandidates ==
    {Arr(<<ShortRow, ShortRow>>), GridWith(NaN),
     ToJs(FromRows(<<<<15, 0, 0>>, <<0, 16, 0>>, <<0, 0, 5>>>>)),
     ToJs(FromRows(<<<<14, -3, 0>>, <<0, 14, 0>>, <<0, 0, 20>>>>))}

NewValues == {15}

Deltas == {1}

\* Bound: the state-changing calls of one session
MaxCalls == 2

\* the (row, col) every call of a session is made with
Positions ==
    {<<Num(0), Num(0)>>, <<Num(1), Num(1)>>, <<Num(2), Num(2)>>, <<Num(0), Num(2)>>,
     <<Num(-1), Num(0)>>, <<Num(3), Num(1)>>, <<Num(0), Num(-1)>>, <<Num(1), Num(3)>>,
     <<Frac(1), Num(0)>>, <<Num(0), Frac(1)>>, <<Str(0), Num(0)>>, <<Num(0), Str(0)>>}

\* a session of state-level calls on the state createInitialState returns
InitState ==
    /\ mode \in Variants
    /\ HeapInit(InitialGrid(mode))
    /\ pc = "idle"
    /\ \E pos \in Positions : argRow = pos[1] /\ argCol = pos[2]
    /\ clicksLeft = MaxCalls
    /\ GhostInit

\* what the state-level calls leave alone: the engine's call record
EngineUnchanged ==
    UNCHANGED <<mode, pc, argRow, argCol, inRef, inSnap, outRef, outcome,
                newGrid, queue, processed, log, sessions, active, plan>>

StateUnchanged ==
    UNCHANGED <<outer, rowmem, gridRef, moveCount, isGameOver, stateRef, argGrid>>

\* resetGame() = createInitialState(): a new state around a new grid literal
resetGame ==
    /\ pc = "idle"
    /\ clicksLeft > 0
    /\ clicksLeft' = clicksLeft - 1
    /\ LET h == AllocGrid(outer, gridRef, InitialGrid(mode))
       IN /\ outer' = h.om
          /\ rowmem' = h.rm
          /\ gridRef' = h.ref
    /\ moveCount' = 0
    /\ isGameOver' = FALSE
    /\ stateRef' = NewState(stateRef)
    /\ argGrid' = 0
    /\ api' = ApiCall("resetGame", JsUndefined, JsUndefined, "none", JsUndefined)
    /\ UNCHANGED candidate
    /\ EngineUnchanged

\* variant: the state keeps the argument's rows ([...grid])
createCustomStateShallow(grid) ==
    /\ pc = "idle"
    /\ clicksLeft > 0
    /\ clicksLeft' = clicksLeft - 1
    /\ candidate' = grid
    /\ IF ~isValidGrid(grid) \/ ~AllIntegerCells(grid)
       THEN /\ api' = ApiCall("createCustomState", JsUndefined, JsUndefined,
                              "InvalidGrid", JsUndefined)
            /\ StateUnchanged
       ELSE LET om0 == [a \in {1} |-> [i \in Idx |-> i + 1]]
                rm0 == [a \in 1..GridSize |-> CellsOf(grid)[a - 1]]
                h == CloneGridShallow(rm0, om0, 1)
            IN /\ outer' = h.om
               /\ rowmem' = h.rm
               /\ gridRef' = h.ref
               /\ argGrid' = 1
               /\ moveCount' = 0
               /\ isGameOver' = FALSE
               /\ stateRef' = NewState(stateRef)
               /\ api' = ApiCall("createCustomState", JsUndefined, JsUndefined,
                                 "none", JsUndefined)
    /\ EngineUnchanged

\* createCustomState(grid): the caller's array (at address 1) is validated and
\* deep-copied into a new state; an array with a non-integer number cell
\* cannot be stored in this heap and is reported as "NotInteger"
createCustomState(grid) ==
    /\ pc = "idle"
    /\ clicksLeft > 0
    /\ clicksLeft' = clicksLeft - 1
    /\ candidate' = grid
    /\ IF ~isValidGrid(grid)
       THEN /\ api' = ApiCall("createCustomState", JsUndefined, JsUndefined,
                              "InvalidGrid", JsUndefined)
            /\ StateUnchanged
       ELSE IF ~AllIntegerCells(grid)
       THEN /\ api' = ApiCall("createCustomState", JsUndefined, JsUndefined,
                              "NotInteger", JsUndefined)
            /\ StateUnchanged
       ELSE LET om0 == [a \in {1} |-> [i \in Idx |-> i + 1]]
                rm0 == [a \in 1..GridSize |-> CellsOf(grid)[a - 1]]
                h == CloneGrid(rm0, om0, 1)
            IN /\ outer' = h.om
               /\ rowmem' = h.rm
               /\ gridRef' = h.ref
               /\ argGrid' = 1
               /\ moveCount' = 0
               /\ isGameOver' = FALSE
               /\ stateRef' = NewState(stateRef)
               /\ api' = ApiCall("createCustomState", JsUndefined, JsUndefined,
                                 "none", JsUndefined)
    /\ EngineUnchanged

\* setGameOver(state): { ...state, isGameOver: true }, the grid is shared
setGameOver ==
    /\ pc = "idle"
    /\ clicksLeft > 0
    /\ clicksLeft' = clicksLeft - 1
    /\ isGameOver' = TRUE
    /\ stateRef' = NewState(stateRef)
    /\ api' = ApiCall("setGameOver", JsUndefined, JsUndefined, "none", JsUndefined)
    /\ UNCHANGED <<outer, rowmem, gridRef, moveCount, argGrid, candidate>>
    /\ EngineUnchanged

\* getCellInfo(value)
getCellInfo(value) ==
    [value |-> value, isLocked |-> isLocked(value),
     isEven |-> JsRem(value, 2) = 0, isOdd |-> JsRem(value, 2) # 0]

\* variant: the accessor reads the grid without its bounds guard
AccessWithoutGuard(row, col) ==
    IF ~HasIndex(row) THEN [error |-> "TypeError", value |-> 0, defined |-> FALSE]
    ELSE IF ~HasIndex(col) THEN [error |-> "none", value |-> 0, defined |-> FALSE]
    ELSE [error |-> "none", value |-> Cell(rowmem, outer, gridRef, row.v, col.v),
          defined |-> TRUE]

\* what an accessor does with (row, col): the "Invalid position" error of the
\* guard, the TypeError of state.grid[row][col] when state.grid[row] is
\* undefined, undefined when the row has no such cell, or the cell's value
Access(row, col) ==
    IF ~isValidPosition(row, col) THEN [error |-> "InvalidPosition", value |-> 0, defined |-> FALSE]
    ELSE IF ~HasIndex(row) THEN [error |-> "TypeError", value |-> 0, defined |-> FALSE]
    ELSE IF ~HasIndex(col) THEN [error |-> "none", value |-> 0, defined |-> FALSE]
    ELSE [error |-> "none", value |-> Cell(rowmem, outer, gridRef, row.v, col.v),
          defined |-> TRUE]

\* getCellValue(state, row, col)
getCellValue(row, col) ==
    /\ pc = "idle"
    /\ LET a == Access(row, col)
       IN api' = ApiCall("getCellValue", row, col, a.error,
                         IF a.defined THEN Num(a.value) ELSE JsUndefined)
    /\ StateUnchanged
    /\ UNCHANGED <<candidate, clicksLeft>>
    /\ EngineUnchanged

\* getCellInfoAt(state, row, col)
getCellInfoAt(row, col) ==
    /\ pc = "idle"
    /\ LET a == Access(row, col)
       IN api' = ApiCall("getCellInfoAt", row, col, a.error,
                         IF a.defined THEN getCellInfo(a.value) ELSE JsUndefined)
    /\ StateUnchanged
    /\ UNCHANGED <<candidate, clicksLeft>>
    /\ EngineUnchanged

\* isCellLocked(state, row, col); undefined >= 15 is false
isCellLocked(row, col) ==
    /\ pc = "idle"
    /\ LET a == Access(row, col)
       IN api' = ApiCall("isCellLocked", row, col, a.error,
                         IF a.defined THEN isLocked(a.value) ELSE FALSE)
    /\ StateUnchanged
    /\ UNCHANGED <<candidate, clicksLeft>>
    /\ EngineUnchanged

\* the loop of getLockedCells from cell number k on, row by row
RECURSIVE LockedCellsFrom(_, _)
LockedCellsFrom(grid, k) ==
    IF k >= GridSize * GridSize
    THEN <<>>
    ELSE LET row == k \div GridSize
             col == k % GridSize
             value == grid[row][col]
         IN (IF isLocked(value)
             THEN <<[row |-> row, col |-> col, value |-> value]>>
             ELSE <<>>)
            \o LockedCellsFrom(grid, k + 1)

\* state.grid.flat()
flattenGrid(grid) ==
    [k \in 1..(GridSize * GridSize) |-> grid[(k - 1) \div GridSize][(k - 1) % GridSize]]

\* values.reduce((acc, val) => acc + val, 0)
RECURSIVE ReduceSum(_)
ReduceSum(values) ==
    IF values = <<>> THEN 0 ELSE Head(values) + ReduceSum(Tail(values))

RECURSIVE MathMin(_)
MathMin(values) ==
    IF Len(values) = 1 THEN Head(values)
    ELSE LET m == MathMin(Tail(values))
         IN IF Head(values) < m THEN Head(values) ELSE m

RECURSIVE MathMax(_)
MathMax(values) ==
    IF Len(values) = 1 THEN Head(values)
    ELSE LET m == MathMax(Tail(values))
         IN IF Head(values) > m THEN Head(values) ELSE m

\* getGridStats without average, which is sum / 9
GridStats(grid) ==
    LET values == flattenGrid(grid)
        lockedCells == LockedCellsFrom(grid, 0)
    IN [totalCells |-> 9,
        lockedCount |-> Len(lockedCells),
        unlockedCount |-> 9 - Len(lockedCells),
        minValue |-> MathMin(values),
        maxValue |-> MathMax(values),
        sum |-> ReduceSum(values)]

\* getLockedCells(state)
getLockedCells ==
    /\ pc = "idle"
    /\ api' = ApiCall("getLockedCells", JsUndefined, JsUndefined, "none",
                      LockedCellsFrom(GridContent(rowmem, outer, gridRef), 0))
    /\ StateUnchanged
    /\ UNCHANGED <<candidate, clicksLeft>>
    /\ EngineUnchanged

\* getGridStats(state)
getGridStats ==
    /\ pc = "idle"
    /\ api' = ApiCall("getGridStats", JsUndefined, JsUndefined, "none",
                      GridStats(GridContent(rowmem, outer, gridRef)))
    /\ StateUnchanged
    /\ UNCHANGED <<candidate, clicksLeft>>
    /\ EngineUnchanged

\* the part of updateCell after its own bounds check: the lock test through
\* isCellLocked, then the new state around the mapped grid
UpdateAfterGuard(op, row, col, newValue, countLocked) ==
    LET a == Access(row, col)
    IN IF a.error # "none"
       THEN /\ api' = ApiCall(op, row, col, a.error, JsUndefined)
            /\ StateUnchanged
       ELSE IF a.defined /\ isLocked(a.value)
       THEN /\ api' = ApiCall(op, row, col, "none", Num(stateRef))
            /\ moveCount' = IF countLocked THEN moveCount + 1 ELSE moveCount
            /\ UNCHANGED <<outer, rowmem, gridRef, isGameOver, stateRef, argGrid>>
       ELSE LET h == CloneGrid(rowmem, outer, gridRef)
            IN /\ outer' = h.om
               /\ rowmem' = IF a.defined
                            THEN WriteCell(h.rm, h.om, h.ref, row.v, col.v, newValue)
                            ELSE h.rm
               /\ gridRef' = h.ref
               /\ moveCount' = moveCount + 1
               /\ stateRef' = NewState(stateRef)
               /\ argGrid' = 0
               /\ api' = ApiCall(op, row, col, "none", Num(NewState(stateRef)))
               /\ UNCHANGED isGameOver

\* variant: the move is counted before the lock is tested
updateCellCountingLocked(row, col, newValue) ==
    /\ pc = "idle"
    /\ mode = "moves"
    /\ clicksLeft > 0
    /\ clicksLeft' = clicksLeft - 1
    /\ UpdateAfterGuard("updateCell", row, col, newValue, TRUE)
    /\ UNCHANGED candidate
    /\ EngineUnchanged

\* updateCell(state, row, col, newValue), src/app/gameState.js only
updateCell(row, col, newValue) ==
    /\ pc = "idle"
    /\ mode = "moves"
    /\ clicksLeft > 0
    /\ clicksLeft' = clicksLeft - 1
    /\ UpdateAfterGuard("updateCell", row, col, newValue, FALSE)
    /\ UNCHANGED candidate
    /\ EngineUnchanged

\* incrementCell(state, row, col, delta): getCellValue, then updateCell with
\* the sum; src/app/gameState.js only
incrementCell(row, col, delta) ==
    /\ pc = "idle"
    /\ mode = "moves"
    /\ clicksLeft > 0
    /\ clicksLeft' = clicksLeft - 1
    /\ LET a == Access(row, col)
       IN UpdateAfterGuard("incrementCell", row, col,
                           IF a.defined THEN a.value + delta ELSE 0, FALSE)
    /\ UNCHANGED candidate
    /\ EngineUnchanged

\* a click of the page, in the versions that have updateGrid
ClickOnState ==
    /\ pc = "idle"
    /\ mode \in Modes
    /\ clicksLeft > 0
    /\ updateGrid(argRow, argCol)
    /\ argGrid' = 0
    /\ api' = NoCall
    /\ UNCHANGED <<moveCount, isGameOver, stateRef, candidate, sessions, active, plan>>

NextState ==
    \/ resetGame
    \/ \E grid \in CustomCandidates : createCustomState(grid)
    \/ setGameOver
    \/ getCellValue(argRow, argCol)
    \/ getCellInfoAt(argRow, argCol)
    \/ isCellLocked(argRow, argCol)
    \/ getLockedCells
    \/ getGridStats
    \/ \E v \in NewValues : updateCell(argRow, argCol, v)
    \/ \E d \in Deltas : incrementCell(argRow, argCol, d)
    \/ ClickOnState
    \/ ProcessQueue
    \/ ReturnNewGrid

StateSpec == InitState /\ [][NextState]_vars

-----------------------------------------------------------------------------
(* Two independent sessions whose clicks are interleaved *)

\* Bound: the clicks each of the two sessions makes
PairClicks == 2

\* two sessions start on equal grids (each its own array) and click the same
\* cell; session 1 runs first, session 2 waits
InitPair ==
    /\ mode \in Modes
    /\ \E v \in SeedVals :
          /\ HeapInit(UniformGrid(v))
          /\ sessions = [id \in {1, 2} |->
                           [grid |-> UniformGrid(v), hist |-> <<>>, left |-> PairClicks]]
    /\ active = 1
    /\ plan = NoPlan
    /\ pc = "idle"
    /\ argRow \in {Num(i) : i \in Idx}
    /\ argCol \in {Num(j) : j \in Idx}
    /\ clicksLeft = PairClicks
    /\ moveCount = 0
    /\ isGameOver = FALSE
    /\ stateRef = 1
    /\ argGrid = 0
    /\ api = NoCall
    /\ candidate = JsNull
    /\ inRef = 0
    /\ inSnap = UniformGrid(0)
    /\ outRef = 0
    /\ outcome = "none"
    /\ newGrid = 0
    /\ queue = <<>>
    /\ processed = {}
    /\ log = <<>>

\* the running session clicks: handleCellClick on the grid it holds
SessionClick ==
    /\ pc = "idle"
    /\ clicksLeft > 0
    /\ updateGrid(argRow, argCol)
    /\ sessions' = [sessions EXCEPT
                      ![active].hist = Append(@, GridContent(rowmem, outer, gridRef))]
    /\ UNCHANGED <<moveCount, isGameOver, stateRef, argGrid, candidate, api, active, plan>>

\* the other session gets its turn between two calls: its grid, an array of
\* its own, is the one the next call is given; whatever the engine kept from
\* the last call stays
SwitchSession ==
    /\ pc = "idle"
    /\ LET other == 3 - active
           h == AllocGrid(outer, gridRef, sessions[other].grid)
       IN /\ active' = other
          /\ sessions' = [sessions EXCEPT
                            ![active].grid = GridContent(rowmem, outer, gridRef),
                            ![active].left = clicksLeft]
          /\ outer' = h.om
          /\ rowmem' = h.rm
          /\ gridRef' = h.ref
          /\ clicksLeft' = sessions[other].left
    /\ UNCHANGED <<mode, pc, argRow, argCol, inRef, inSnap, outRef, outcome,
                   newGrid, queue, processed, log,
                   moveCount, isGameOver, stateRef, argGrid, candidate, api, plan>>

NextPair == SessionClick \/ SwitchSession \/ ProcessQueue \/ ReturnNewGrid

PairSpec == InitPair /\ [][NextPair]_vars

\* the same grid and click given to both variants: the single-step one first
InitBoth == InitCall /\ mode = "single"

\* the single-step result is kept, and the cascading updateGrid is called with
\* a grid holding the same cells and with the same (row, col)
CallOtherVariant ==
    /\ pc = "idle"
    /\ mode = "single"
    /\ inRef # 0
    /\ LET h == AllocGrid(outer, gridRef, inSnap)
       IN /\ outer' = h.om
          /\ rowmem' = h.rm
          /\ gridRef' = h.ref
    /\ api' = [op |-> "updateGrid", variant |-> mode, outcome |-> outcome,
               sameRef |-> (outRef = inRef),
               ret |-> GridContent(rowmem, outer, gridRef)]
    /\ mode' = "cascade"
    /\ pc' = "called"
    /\ clicksLeft' = 1
    /\ inRef' = 0
    /\ outRef' = 0
    /\ outcome' = "none"
    /\ log' = <<>>
    /\ UNCHANGED <<argRow, argCol, inSnap, newGrid, queue, processed,
                   moveCount, isGameOver, stateRef, argGrid, candidate, sessions, active, plan>>

NextBoth == CallUpdateGrid \/ CallOtherVariant \/ ProcessQueue \/ ReturnNewGrid

BothSpec == InitBoth /\ [][NextBoth]_vars

\* one call of the cascading variant
InitCascade == InitCall /\ mode = "cascade"

\* one cascading call under the scheduling of a synchronous function: a step
\* that can be taken is eventually taken
FairCascadeSpec == InitCascade /\ [][NextCall]_vars /\ WF_vars(NextCall)

-----------------------------------------------------------------------------
(* Vocabulary of the properties, stated without the engine's own predicates *)

\* a call has returned (or thrown) and none is in progress
CallDone == pc = "idle" /\ inRef # 0

\* (row, col) fails the bounds predicate: non-integer, negative or >= 3
OutOfBounds(row, col) ==
    \/ row.kind # "int"
    \/ col.kind # "int"
    \/ row.v < 0
    \/ row.v > 2
    \/ col.v < 0
    \/ col.v > 2

\* the cells of the grid passed in, as they are now
InputNow == GridContent(rowmem, outer, inRef)

\* the cells of the grid the last call returned
Output == GridContent(rowmem, outer, outRef)

\* the last call's target was in bounds and held 15 or more
TargetLocked ==
    /\ ~OutOfBounds(argRow, argCol)
    /\ inSnap[argRow.v][argCol.v] >= 15

\* the last call passed both guards
Accepted ==
    /\ ~OutOfBounds(argRow, argCol)
    /\ inSnap[argRow.v][argCol.v] < 15

\* the newest grid: the working copy during a call, the caller's grid otherwise
Latest == GridContent(rowmem, outer, IF pc = "loop" THEN newGrid ELSE gridRef)

-----------------------------------------------------------------------------
(* C1: a call whose (row, col) fails the bounds predicate does not throw and
   returns the very grid instance it was given, all nine cells unchanged, in
   both variants *)
C1_InvalidPositionNoOp ==
    (CallDone /\ OutOfBounds(argRow, argCol)) =>
        /\ outcome = "returned"
        /\ outRef = inRef
        /\ InputNow = inSnap

C1_Witness ==
    /\ CallDone
    /\ mode = "cascade"
    /\ argRow = Num(1)
    /\ argCol = Frac(1)
    /\ outcome = "returned"
    /\ outRef = inRef
    /\ inSnap[0][0] = 14

(* C2: a call on a valid position whose cell holds 15 or more returns the
   very same grid instance, content-equal to the input: no increment and no
   ripple rule is applied, in both variants *)
C2_LockedTargetNoOp ==
    (CallDone /\ TargetLocked) =>
        /\ outcome = "returned"
        /\ outRef = inRef
        /\ InputNow = inSnap
        /\ log = <<>>

C2_Witness ==
    /\ CallDone
    /\ TargetLocked
    /\ inSnap[argRow.v][argCol.v] = 15
    /\ argCol.v < 2
    /\ inSnap[argRow.v][argCol.v + 1] = 4
    /\ outRef = inRef

(* C3: once a cell holds 15 or more it keeps exactly that value in every
   later grid, working copies included: no click and no ripple changes it *)
C3_LockedCellsKeepValue ==
    [][\A i \in Idx, j \in Idx :
          Latest[i][j] >= 15 => Latest'[i][j] = Latest[i][j]]_vars

\* a rule-3 ripple into a locked right neighbour was suppressed
C3_Witness ==
    /\ CallDone
    /\ \E k \in 1..Len(log) :
          /\ log[k].value # 0
          /\ log[k].value % 3 = 0
          /\ log[k].col < 2
          /\ inSnap[log[k].row][log[k].col + 1] >= 15
          /\ Output[log[k].row][log[k].col + 1] = inSnap[log[k].row][log[k].col + 1]

(* C4: updateGrid never mutates its input grid: at every moment of a call
   and after it, every cell of the grid object passed in holds the value it
   held when the call was made *)
C4_InputNeverMutated == inRef # 0 => InputNow = inSnap

\* a cascading call that evaluated three cells and returned a changed grid
C4_Witness ==
    /\ CallDone
    /\ mode = "cascade"
    /\ Len(log) >= 3
    /\ outRef # inRef
    /\ Output # inSnap
    /\ InputNow = inSnap

(* C5: the returned grid is the input instance exactly when a guard rejected
   the call; an accepted click returns a new outer array none of whose rows
   is a row of the input, also when no ripple fires *)
C5_NewInstanceIffAccepted ==
    CallDone =>
        /\ (outRef = inRef) <=> (OutOfBounds(argRow, argCol) \/ TargetLocked)
        /\ Accepted => \A i \in Idx, j \in Idx : outer[outRef][i] # outer[inRef][j]

\* an accepted click without any ripple
C5_Witness ==
    /\ CallDone
    /\ Accepted
    /\ Len(log) = 1
    /\ ~log[1].right
    /\ ~log[1].below
    /\ outRef # inRef
    /\ \A i \in Idx, j \in Idx : outer[outRef][i] # outer[inRef][j]

\* the value the clicked cell of an accepted call is brought to
NewValue == inSnap[argRow.v][argCol.v] + 1

\* v is a nonzero multiple of n
NonzeroMultiple(v, n) == v # 0 /\ v % n = 0

(* C6: on an accepted click whose new value is a nonzero multiple of 3, an
   existing, unlocked right neighbour ends exactly 1 lower; when the new
   value is not a nonzero multiple of 3 the right neighbour is not changed *)
C6_RightNeighbourMinusOne ==
    (CallDone /\ Accepted /\ argCol.v < 2) =>
        LET before == inSnap[argRow.v][argCol.v + 1]
            after == Output[argRow.v][argCol.v + 1]
        IN /\ (NonzeroMultiple(NewValue, 3) /\ before < 15) =>
                  (after = before - 1 /\ log[1].right)
           /\ ~NonzeroMultiple(NewValue, 3) =>
                  (after = before /\ ~log[1].right)

C6_Witness ==
    /\ CallDone
    /\ Accepted
    /\ argCol.v < 2
    /\ NewValue = 3
    /\ inSnap[argRow.v][argCol.v + 1] = 4
    /\ Output[argRow.v][argCol.v + 1] = 3

(* C7: on an accepted click whose new value is a nonzero multiple of 5, an
   existing, unlocked below neighbour ends exactly 2 higher; when the new
   value is not a nonzero multiple of 5 the below neighbour is not changed *)
C7_BelowNeighbourPlusTwo ==
    (CallDone /\ Accepted /\ argRow.v < 2) =>
        LET before == inSnap[argRow.v + 1][argCol.v]
            after == Output[argRow.v + 1][argCol.v]
        IN /\ (NonzeroMultiple(NewValue, 5) /\ before < 15) =>
                  (after = before + 2 /\ log[1].below)
           /\ ~NonzeroMultiple(NewValue, 5) =>
                  (after = before /\ ~log[1].below)

C7_Witness ==
    /\ CallDone
    /\ Accepted
    /\ argRow.v < 2
    /\ NewValue = 5
    /\ inSnap[argRow.v + 1][argCol.v] = 1
    /\ Output[argRow.v + 1][argCol.v] = 3

(* C8: clicking a cell that holds 14 brings it to exactly 15, which is
   locked, and in the same call takes 1 from its right neighbour and adds 2
   to its below neighbour, each where it exists and is not locked *)
C8_BothRulesAtFifteen ==
    (CallDone /\ ~OutOfBounds(argRow, argCol) /\ inSnap[argRow.v][argCol.v] = 14) =>
        /\ Output[argRow.v][argCol.v] = 15
        /\ Output[argRow.v][argCol.v] >= 15
        /\ (argCol.v < 2 /\ inSnap[argRow.v][argCol.v + 1] < 15) =>
              Output[argRow.v][argCol.v + 1] = inSnap[argRow.v][argCol.v + 1] - 1
        /\ (argRow.v < 2 /\ inSnap[argRow.v + 1][argCol.v] < 15) =>
              Output[argRow.v + 1][argCol.v] = inSnap[argRow.v + 1][argCol.v] + 2

\* both neighbours exist, are unlocked and were changed by the click on 14
C8_Witness ==
    /\ CallDone
    /\ argRow = Num(1)
    /\ argCol = Num(1)
    /\ inSnap[1][1] = 14
    /\ Output[1][1] = 15
    /\ Output[1][2] = inSnap[1][2] - 1
    /\ Output[2][1] = inSnap[2][1] + 2
    /\ inSnap[1][2] < 15
    /\ inSnap[2][1] < 15

\* the loop is about to evaluate the rules of a cell whose value is 0
ZeroEvaluated ==
    /\ pc = "loop"
    /\ queue # <<>>
    /\ <<Head(queue).row, Head(queue).col>> \notin processed
    /\ Latest[Head(queue).row][Head(queue).col]
         + (IF Head(queue).isOriginalClick THEN 1 ELSE 0) = 0

(* C9: a cell whose value is exactly 0 when its rules are evaluated never
   ripples: a click taking a cell from -1 to 0 changes no other cell, and in
   the cascading variant the evaluation of a cell holding 0 writes to no
   other cell and enqueues nothing *)
C9_ZeroNeverRipples ==
    /\ [](\A k \in 1..Len(log) :
             (~log[k].skipped /\ log[k].value = 0) => (~log[k].right /\ ~log[k].below))
    /\ []((CallDone /\ Accepted /\ NewValue = 0) =>
             \A i \in Idx, j \in Idx :
                 (i # argRow.v \/ j # argCol.v) => Output[i][j] = inSnap[i][j])
    /\ [][ZeroEvaluated =>
             /\ queue' = Tail(queue)
             /\ \A i \in Idx, j \in Idx :
                   (i # Head(queue).row \/ j # Head(queue).col) =>
                       Latest'[i][j] = Latest[i][j]]_vars

\* a cell brought to 0 by an incoming ripple was evaluated in a cascade, with
\* an unlocked neighbour it could have written to
C9_Witness ==
    /\ CallDone
    /\ mode = "cascade"
    /\ \E k \in 2..Len(log) :
          /\ ~log[k].skipped
          /\ ~log[k].isOriginalClick
          /\ log[k].value = 0
          /\ log[k].row < 2
          /\ Output[log[k].row + 1][log[k].col] < 15

(* C10: a locked ripple target suppresses only its own rule: when the
   clicked cell reaches a nonzero multiple of 15 with a locked right and an
   unlocked below neighbour, the right one is unchanged and the below one
   gains 2; with a locked below and an unlocked right neighbour, the below
   one is unchanged and the right one loses 1 *)
C10_LockedTargetSuppressesOneRule ==
    (CallDone /\ Accepted /\ NonzeroMultiple(NewValue, 15)
        /\ argRow.v < 2 /\ argCol.v < 2) =>
        LET right == inSnap[argRow.v][argCol.v + 1]
            below == inSnap[argRow.v + 1][argCol.v]
        IN /\ (right >= 15 /\ below < 15) =>
                  /\ Output[argRow.v][argCol.v + 1] = right
                  /\ Output[argRow.v + 1][argCol.v] = below + 2
           /\ (below >= 15 /\ right < 15) =>
                  /\ Output[argRow.v + 1][argCol.v] = below
                  /\ Output[argRow.v][argCol.v + 1] = right - 1

\* the right neighbour was locked and the below neighbour still gained 2
C10_Witness ==
    /\ CallDone
    /\ Accepted
    /\ NewValue = 15
    /\ argRow.v < 2
    /\ argCol.v < 2
    /\ inSnap[argRow.v][argCol.v + 1] = 15
    /\ inSnap[argRow.v + 1][argCol.v] = 13
    /\ Output[argRow.v][argCol.v + 1] = 15
    /\ Output[argRow.v + 1][argCol.v] = 15

(* C11: when the clicked cell's new value is divisible neither by 3 nor by
   5, the returned grid differs from the input in exactly one cell, the
   clicked one, which holds its input value plus 1; in both variants *)
C11_OnlyClickedCellChanges ==
    (CallDone /\ Accepted /\ NewValue % 3 # 0 /\ NewValue % 5 # 0) =>
        /\ outcome = "returned"
        /\ Output = [inSnap EXCEPT ![argRow.v][argCol.v] = inSnap[argRow.v][argCol.v] + 1]
        /\ Output # inSnap

\* a click 6 -> 7 beside unlocked neighbours, in the cascading variant
C11_Witness ==
    /\ CallDone
    /\ Accepted
    /\ mode = "cascade"
    /\ argRow = Num(1)
    /\ argCol = Num(1)
    /\ inSnap[1][1] = 6
    /\ Output[1][1] = 7
    /\ inSnap[1][2] = 4
    /\ Output[1][2] = 4
    /\ Output[2][1] = inSnap[2][1]

\* every cell index a log entry names: the cell evaluated and the cells written
LogInBounds(e) ==
    /\ e.row \in 0..2
    /\ e.col \in 0..2
    /\ e.right => e.col + 1 <= 2
    /\ e.below => e.row + 1 <= 2

(* C12: updateGrid never reads or writes a cell outside {0,1,2}x{0,1,2}: a
   call never ends by an exception or with a grid that is not 3x3, an
   out-of-bounds target is rejected before any cell is evaluated, every cell
   evaluated, queued or written lies inside the grid, and a rule whose target
   would be column 3 or row 3 is dropped *)
C12_NoAccessOutsideGrid ==
    /\ outcome \in {"none", "returned"}
    /\ (CallDone /\ OutOfBounds(argRow, argCol)) => log = <<>>
    /\ \A k \in 1..Len(log) : LogInBounds(log[k])
    /\ \A k \in 1..Len(queue) : queue[k].row \in 0..2 /\ queue[k].col \in 0..2
    /\ \A g \in DOMAIN outer :
          /\ DOMAIN outer[g] = 0..2
          /\ \A i \in 0..2 : DOMAIN rowmem[outer[g][i]] = 0..2

\* a cascade reached the right column with a nonzero multiple of 3 there, and
\* the click returned
C12_Witness ==
    /\ CallDone
    /\ outcome = "returned"
    /\ \E k \in 2..Len(log) :
          /\ log[k].col = 2
          /\ ~log[k].skipped
          /\ log[k].value # 0
          /\ log[k].value % 3 = 0
          /\ ~log[k].right

\* the last call clicked (0, 0) on [[2,4,0],[0,0,0],[0,0,0]]
ChainScenario ==
    /\ argRow = Num(0)
    /\ argCol = Num(0)
    /\ inSnap = FromRows(<<<<2, 4, 0>>, <<0, 0, 0>>, <<0, 0, 0>>>>)

(* C13: in the cascading variant a neighbour changed by the clicked cell's
   ripple is evaluated in the same click on its new value: when that value is
   a nonzero multiple of 3 (right neighbour) or of 5 (below neighbour) its own
   rule reaches the next unlocked cell; a click at (0,0) on
   [[2,4,0],[0,0,0],[0,0,0]] returns [[3,3,-1],[0,0,0],[0,0,0]] *)
C13_CascadeChains ==
    (CallDone /\ Accepted /\ mode = "cascade") =>
        LET r == argRow.v
            c == argCol.v
        IN /\ ChainScenario =>
                 Output = FromRows(<<<<3, 3, -1>>, <<0, 0, 0>>, <<0, 0, 0>>>>)
           /\ log[1].right =>
                 \E k \in 2..Len(log) :
                    /\ log[k].row = r /\ log[k].col = c + 1
                    /\ ~log[k].skipped /\ ~log[k].isOriginalClick
                    /\ log[k].value = inSnap[r][c + 1] - 1
                    /\ (NonzeroMultiple(log[k].value, 3) /\ c + 2 <= 2
                          /\ inSnap[r][c + 2] < 15) =>
                          (log[k].right /\ Output[r][c + 2] = inSnap[r][c + 2] - 1)
           /\ log[1].below =>
                 \E k \in 2..Len(log) :
                    /\ log[k].row = r + 1 /\ log[k].col = c
                    /\ ~log[k].skipped /\ ~log[k].isOriginalClick
                    /\ log[k].value = inSnap[r + 1][c] + 2
                    /\ (NonzeroMultiple(log[k].value, 5) /\ r + 2 <= 2
                          /\ inSnap[r + 2][c] < 15) =>
                          (log[k].below /\ Output[r + 2][c] = inSnap[r + 2][c] + 2)

C13_Witness ==
    /\ CallDone
    /\ mode = "cascade"
    /\ ChainScenario
    /\ Output[0][1] = 3
    /\ Output[0][2] = -1

(* C14: in the single-step variant only the clicked cell's new value is
   evaluated: a click changes at most the clicked cell, its right neighbour
   and its below neighbour, also when a neighbour ends on a nonzero multiple
   of 3 or 5; a click at (0,0) on [[2,4,0],[0,0,0],[0,0,0]] leaves (0,2) at 0 *)
C14_SingleStepStopsAtNeighbours ==
    (CallDone /\ Accepted /\ mode = "single") =>
        /\ Len(log) = 1
        /\ \A i \in Idx, j \in Idx :
              ~(\/ (i = argRow.v /\ j = argCol.v)
                \/ (i = argRow.v /\ j = argCol.v + 1)
                \/ (i = argRow.v + 1 /\ j = argCol.v)) =>
                  Output[i][j] = inSnap[i][j]
        /\ ChainScenario =>
              Output = FromRows(<<<<3, 3, 0>>, <<0, 0, 0>>, <<0, 0, 0>>>>)

C14_Witness ==
    /\ CallDone
    /\ mode = "single"
    /\ ChainScenario
    /\ Output[0][1] = 3
    /\ Output[0][2] = 0

\* the cell at the head of the worklist was already evaluated in this click
HeadEvaluatedBefore ==
    /\ pc = "loop"
    /\ queue # <<>>
    /\ \E k \in 1..Len(log) :
          /\ ~log[k].skipped
          /\ log[k].row = Head(queue).row
          /\ log[k].col = Head(queue).col

(* C15: in the cascading variant each cell's rules are evaluated at most once
   per click: no cell is evaluated twice, and dequeuing a cell evaluated
   before changes no cell, enqueues nothing and only removes the head of the
   worklist *)
C15_EachCellEvaluatedOnce ==
    /\ [](\A j \in 1..Len(log), k \in 1..Len(log) :
             (j # k /\ ~log[j].skipped /\ ~log[k].skipped) =>
                 (log[j].row # log[k].row \/ log[j].col # log[k].col))
    /\ [](\A k \in 1..Len(log) : log[k].skipped => (~log[k].right /\ ~log[k].below))
    /\ [][HeadEvaluatedBefore =>
             /\ queue' = Tail(queue)
             /\ rowmem' = rowmem
             /\ processed' = processed
             /\ log'[Len(log')].skipped]_vars

\* a cell was enqueued twice in one click and skipped the second time, while
\* holding a value whose rules would have written to a neighbour
C15_Witness ==
    /\ CallDone
    /\ mode = "cascade"
    /\ \E k \in 2..Len(log) :
          /\ log[k].skipped
          /\ NonzeroMultiple(log[k].value, 3) \/ NonzeroMultiple(log[k].value, 5)

\* the most dequeues one click can make: the click, and at most two pushes for
\* each of the 9 cells that can be evaluated
MaxDequeues == 1 + 2 * (GridSize * GridSize)

(* C16: in the cascading variant every call of updateGrid ends: the worklist
   becomes empty and the call returns, whatever the grid and the click;
   during one click at most 9 distinct cells are processed *)
C16_CascadeTerminates ==
    /\ <>CallDone
    /\ [](Cardinality(processed) <= GridSize * GridSize)
    /\ [](Len(log) <= MaxDequeues)
    /\ [](CallDone => outcome \in {"returned", "none"})

\* a cascading call that evaluated four cells has returned with an empty worklist
C16_Witness ==
    /\ CallDone
    /\ mode = "cascade"
    /\ outcome = "returned"
    /\ queue = <<>>
    /\ Cardinality(processed) >= 4

\* how many evaluations of this click wrote to cell (i, j) from the left, and
\* from above
RightWritesInto(i, j) ==
    Cardinality({k \in 1..Len(log) : log[k].right /\ log[k].row = i /\ log[k].col = j - 1})

BelowWritesInto(i, j) ==
    Cardinality({k \in 1..Len(log) : log[k].below /\ log[k].row = i - 1 /\ log[k].col = j})

(* C17: in the cascading variant the +1 is applied exactly once per accepted
   click, to the clicked cell only: the clicked cell ends one higher, every
   other cell ends at its input value plus the ripple deltas written to it,
   and dequeuing a cell reached by a ripple leaves that cell's value as it was *)
C17_IncrementOnlyOriginalClick ==
    /\ [](\A k \in 1..Len(log) : log[k].isOriginalClick <=> (k = 1))
    /\ []((CallDone /\ Accepted /\ mode = "cascade") =>
             \A i \in Idx, j \in Idx :
                 Output[i][j] = inSnap[i][j]
                                + (IF i = argRow.v /\ j = argCol.v THEN 1 ELSE 0)
                                - RightWritesInto(i, j)
                                + 2 * BelowWritesInto(i, j))
    /\ [][(pc = "loop" /\ queue # <<>> /\ log # <<>>) =>
             Latest'[Head(queue).row][Head(queue).col]
                = Latest[Head(queue).row][Head(queue).col]]_vars

\* a cell reached by a ripple was dequeued and evaluated on exactly the value
\* the ripple left in it
C17_Witness ==
    /\ CallDone
    /\ mode = "cascade"
    /\ Accepted
    /\ \E k \in 2..Len(log) :
          /\ ~log[k].skipped
          /\ ~log[k].isOriginalClick
          /\ log[k].row = argRow.v
          /\ log[k].col = argCol.v + 1
          /\ log[k].value = inSnap[argRow.v][argCol.v + 1] - 1
          /\ Output[argRow.v][argCol.v + 1] = log[k].value

(* C18: from any 3x3 grid of integers, after any sequence of updateGrid calls
   of either variant the grid is still 3 rows of 3 cells, every cell holds an
   integer, and no call has stored a value outside the nine cells *)
C18_GridStaysThreeByThreeIntegers ==
    /\ Latest \in [Idx -> [Idx -> Int]]
    /\ \A g \in DOMAIN outer :
          /\ DOMAIN outer[g] = 0..2
          /\ \A i \in 0..2 : rowmem[outer[g][i]] \in [0..2 -> Int]
    /\ outcome # "malformed"

\* two accepted clicks of a session have left at least four different values
C18_Witness ==
    /\ pc = "idle"
    /\ clicksLeft = 0
    /\ outcome = "returned"
    /\ Cardinality({Latest[i][j] : i \in Idx, j \in Idx}) >= 4

\* the number of clicks made so far in a run of repeated clicks
ClicksDone == RepeatClicks - clicksLeft

\* the run targets this cell and is between two clicks
BetweenClicksAt(i, j) == pc = "idle" /\ argRow = Num(i) /\ argCol = Num(j)

(* C19: from the all-zero grid, after k clicks on (0,0), k in 0..15, the grid
   has (0,0) = k, (0,1) = -floor(k/3) and (1,0) = 2*floor(k/5) in both
   variants (15, -5 and 6 after 15 clicks); every later click on (0,0)
   returns the grid it was given, unchanged *)
C19_CumulativeClicksAtOrigin ==
    BetweenClicksAt(0, 0) =>
        LET k == IF ClicksDone <= 15 THEN ClicksDone ELSE 15
        IN /\ Latest[0][0] = k
           /\ Latest[0][1] = 0 - (k \div 3)
           /\ Latest[1][0] = 2 * (k \div 5)
           /\ (ClicksDone = 15) =>
                 (Latest[0][0] = 15 /\ Latest[0][1] = -5 /\ Latest[1][0] = 6)
           /\ (ClicksDone > 15) => (outRef = inRef /\ Output = inSnap)

\* the click after the fifteenth was made and rejected
C19_Witness ==
    /\ BetweenClicksAt(0, 0)
    /\ ClicksDone = 16
    /\ Latest[0][0] = 15
    /\ Latest[0][1] = -5
    /\ Latest[1][0] = 6
    /\ outRef = inRef

(* C20: in the cascading variant, from the all-zero grid, 15 clicks on (1,1)
   give (1,1) = 15, (1,2) = -5, (2,1) = 6 and (2,2) = 1, and every cell of
   row 0 and of column 0 is still 0 *)
C20_CumulativeCascadeAtCentre ==
    (BetweenClicksAt(1, 1) /\ mode = "cascade" /\ ClicksDone = 15) =>
        /\ Latest[1][1] = 15
        /\ Latest[1][2] = -5
        /\ Latest[2][1] = 6
        /\ Latest[2][2] = 1
        /\ \A i \in Idx : Latest[0][i] = 0 /\ Latest[i][0] = 0

C20_Witness ==
    /\ BetweenClicksAt(1, 1)
    /\ mode = "cascade"
    /\ ClicksDone = 15
    /\ Latest[1][1] = 15
    /\ Latest[2][2] = 1

\* a JS value that is a finite number
FiniteNumber(x) == x.kind = "int" \/ x.kind = "frac"

\* a sequence of exactly 3 rows, each a sequence of exactly 3 finite numbers
ThreeByThreeFinite(x) ==
    /\ x.kind = "array"
    /\ Len(x.items) = 3
    /\ \A k \in 1..Len(x.items) :
          /\ x.items[k].kind = "array"
          /\ Len(x.items[k].items) = 3
          /\ \A m \in 1..3 : FiniteNumber(x.items[k].items[m])

(* C23: isValidGrid(candidate) is true exactly when candidate is a sequence
   of exactly 3 rows, each a sequence of exactly 3 finite numeric values: it
   is false for a non-array, a wrong row or column count, a non-number cell,
   NaN and a non-finite cell such as Infinity *)
C23_IsValidGridExactlyFinite3x3 ==
    (api.op = "isValidGrid") => (api.ret <=> ThreeByThreeFinite(candidate))

(* C24: isValidPosition(row, col) is true if and only if row and col are both
   integers in 0..2: false for negative indices, for 3 or more, for
   fractional numbers and for non-number inputs such as the string '0' *)
C24_IsValidPositionIffIntegersInRange ==
    (api.op = "isValidPosition") =>
        (api.ret <=> (/\ argRow.kind = "int" /\ argCol.kind = "int"
                      /\ argRow.v \in 0..2 /\ argCol.v \in 0..2))

\* isValidPosition was asked about the string '0' and answered false
C24_Witness ==
    /\ api.op = "isValidPosition"
    /\ argRow = Str(0)
    /\ argCol = Num(0)
    /\ api.ret = FALSE

\* the grid of the caller's state
StateGrid == GridContent(rowmem, outer, gridRef)

\* the caller's state is the one it held before the last state-level call
SameStateAsBefore ==
    /\ StateGrid = api.pre.grid
    /\ gridRef = api.pre.gridRef
    /\ {outer[gridRef][i] : i \in Idx} = api.pre.rows
    /\ moveCount = api.pre.moveCount
    /\ isGameOver = api.pre.isGameOver
    /\ stateRef = api.pre.stateRef

\* the session's first state, as createInitialState returned it
FreshSession == api.op = "none" /\ clicksLeft = MaxCalls /\ inRef = 0

(* C21: createInitialState, and resetGame which delegates to it, returns a
   state whose grid is the 3x3 grid of nine zeros, on every call and whatever
   was clicked before *)
C21_InitialStateAllZeros ==
    (FreshSession \/ api.op = "resetGame") =>
        \A i \in Idx, j \in Idx : StateGrid[i][j] = 0

(* C22: createCustomState(grid) fails with the invalid-grid error and leaves
   the caller's state as it was whenever isValidGrid(grid) is false; otherwise
   it returns a new state whose grid has the argument's cells but is another
   outer array with three other rows, and the argument still has its cells *)
C22_CustomStateValidatedDeepCopy ==
    (api.op = "createCustomState") =>
        IF ~isValidGrid(candidate)
        THEN api.error = "InvalidGrid" /\ SameStateAsBefore
        ELSE /\ api.error = "none"
             /\ argGrid # 0
             /\ StateGrid = CellsOf(candidate)
             /\ GridContent(rowmem, outer, argGrid) = CellsOf(candidate)
             /\ gridRef # argGrid
             /\ {outer[gridRef][i] : i \in Idx} \cap {outer[argGrid][i] : i \in Idx} = {}
             /\ stateRef # api.pre.stateRef

\* a valid custom grid was accepted after an invalid one had been refused
C22_Witness ==
    /\ api.op = "createCustomState"
    /\ api.error = "none"
    /\ clicksLeft = 0
    /\ StateGrid = FromRows(<<<<15, 0, 0>>, <<0, 16, 0>>, <<0, 0, 5>>>>)
    /\ argGrid # 0
    /\ gridRef # argGrid

\* the cells holding 15 or more in the caller's state
LockedNow == {p \in Idx \X Idx : StateGrid[p[1]][p[2]] >= 15}

\* the last call was an accessor, made with a position inside the grid
AccessorAt(op) == api.op = op /\ ~OutOfBounds(api.row, api.col)

(* C25: locked status is derived from the stored value in every reachable
   state: isCellLocked and getCellInfoAt report locked exactly when the value
   is >= 15; getLockedCells lists exactly the cells with value >= 15 as
   (row, col, value) in row-major order; getGridStats has lockedCount equal
   to their number, lockedCount + unlockedCount = 9, and sum, minValue and
   maxValue equal to the sum, minimum and maximum of the nine cells *)
C25_LockedIsDerived ==
    /\ AccessorAt("isCellLocked") =>
          (api.ret <=> StateGrid[api.row.v][api.col.v] >= 15)
    /\ AccessorAt("getCellInfoAt") =>
          /\ api.ret.value = StateGrid[api.row.v][api.col.v]
          /\ api.ret.isLocked <=> api.ret.value >= 15
    /\ (api.op = "getLockedCells") =>
          /\ Len(api.ret) = Cardinality(LockedNow)
          /\ \A k \in 1..Len(api.ret) :
                /\ <<api.ret[k].row, api.ret[k].col>> \in LockedNow
                /\ api.ret[k].value = StateGrid[api.ret[k].row][api.ret[k].col]
          /\ \A k \in 1..(Len(api.ret) - 1) :
                3 * api.ret[k].row + api.ret[k].col
                   < 3 * api.ret[k + 1].row + api.ret[k + 1].col
    /\ (api.op = "getGridStats") =>
          /\ api.ret.lockedCount = Cardinality(LockedNow)
          /\ api.ret.lockedCount + api.ret.unlockedCount = 9
          /\ api.ret.sum = StateGrid[0][0] + StateGrid[0][1] + StateGrid[0][2]
                           + StateGrid[1][0] + StateGrid[1][1] + StateGrid[1][2]
                           + StateGrid[2][0] + StateGrid[2][1] + StateGrid[2][2]
          /\ \A i \in Idx, j \in Idx :
                api.ret.minValue <= StateGrid[i][j] /\ StateGrid[i][j] <= api.ret.maxValue
          /\ \E i \in Idx, j \in Idx : api.ret.minValue = StateGrid[i][j]
          /\ \E i \in Idx, j \in Idx : api.ret.maxValue = StateGrid[i][j]

\* getLockedCells listed a cell holding exactly 15 and one holding 16
C25_Witness ==
    /\ api.op = "getLockedCells"
    /\ api.ret = <<[row |-> 0, col |-> 0, value |-> 15],
                   [row |-> 1, col |-> 1, value |-> 16]>>

(* C26: in the move-counting version moveCount starts at 0, grows by exactly
   1 on each updateCell / incrementCell of an unlocked cell, and stays as it
   was when the target is locked, the very same state being returned; no
   other call on a state changes it and it never decreases *)
C26_MoveCountCountsAcceptedUpdates ==
    /\ []((FreshSession \/ api.op = "resetGame"
           \/ (api.op = "createCustomState" /\ api.error = "none")) => moveCount = 0)
    /\ []((api.op \in {"updateCell", "incrementCell"}) =>
             IF OutOfBounds(api.row, api.col)
             THEN moveCount = api.pre.moveCount
             ELSE IF api.pre.grid[api.row.v][api.col.v] >= 15
             THEN /\ moveCount = api.pre.moveCount
                  /\ stateRef = api.pre.stateRef
                  /\ gridRef = api.pre.gridRef
                  /\ StateGrid = api.pre.grid
             ELSE /\ moveCount = api.pre.moveCount + 1
                  /\ stateRef # api.pre.stateRef)
    /\ [][moveCount' # moveCount =>
             \/ /\ api'.op \in {"updateCell", "incrementCell"}
                /\ moveCount' = moveCount + 1
             \/ /\ api'.op \in {"resetGame", "createCustomState"}
                /\ moveCount' = 0]_vars

\* a counted update locked the cell, and the update after it was refused
C26_Witness ==
    /\ mode = "moves"
    /\ api.op = "updateCell"
    /\ ~OutOfBounds(api.row, api.col)
    /\ api.pre.grid[api.row.v][api.col.v] = 15
    /\ api.pre.moveCount = 1
    /\ moveCount = 1

(* C30: getCellValue, isCellLocked, updateCell and incrementCell raise the
   invalid-position error for every (row, col) that is not a pair of integers
   in 0..2, and the state passed in is left as it was: no cell and no
   moveCount changes *)
C30_AccessorsThrowOnInvalidPosition ==
    (/\ api.op \in {"getCellValue", "isCellLocked", "updateCell", "incrementCell"}
     /\ OutOfBounds(api.row, api.col)) =>
        /\ api.error = "InvalidPosition"
        /\ SameStateAsBefore

\* incrementCell was called with row 1.5 and threw
C30_Witness ==
    /\ mode = "moves"
    /\ api.op = "incrementCell"
    /\ api.row = Frac(1)
    /\ api.error = "InvalidPosition"
    /\ StateGrid = api.pre.grid

\* the log entries of this click for cell (i, j)
EntriesFor(i, j) == {k \in 1..Len(log) : log[k].row = i /\ log[k].col = j}

\* in the last click the right neighbour's rule 5 and the below neighbour's
\* rule 3 both wrote to the cell diagonally below-right of the clicked one
DiagonalHitTwice ==
    /\ CallDone
    /\ Accepted
    /\ mode = "cascade"
    /\ \E k \in EntriesFor(argRow.v, argCol.v + 1) : log[k].below
    /\ \E k \in EntriesFor(argRow.v + 1, argCol.v) : log[k].right

(* C28: in the cascading variant a cell is marked processed when it is
   dequeued, not when it is enqueued: the cell (r+1, c+1) written by the
   rule-5 ripple of (r, c+1) and by the rule-3 ripple of (r+1, c) is enqueued
   twice and ends 1 higher (+2 and -1); its first dequeue evaluates its
   rules, its second dequeue is skipped and changes nothing *)
C28_ProcessedOnDequeue ==
    /\ [](DiagonalHitTwice =>
             LET i == argRow.v + 1
                 j == argCol.v + 1
                 first == CHOOSE k \in EntriesFor(i, j) : \A m \in EntriesFor(i, j) : k <= m
                 last == CHOOSE k \in EntriesFor(i, j) : \A m \in EntriesFor(i, j) : k >= m
             IN /\ Cardinality(EntriesFor(i, j)) = 2
                /\ ~log[first].skipped
                /\ log[first].value = inSnap[i][j] + 1
                /\ log[last].skipped
                /\ Output[i][j] = inSnap[i][j] + 1)
    /\ [](\A p \in processed : \E k \in EntriesFor(p[1], p[2]) : ~log[k].skipped)
    /\ [][(pc = "loop" /\ queue # <<>>) =>
             processed' \subseteq processed \cup {<<Head(queue).row, Head(queue).col>>}]_vars

\* the diagonal cell was evaluated once on a value that fires a rule of its own
C28_Witness ==
    /\ DiagonalHitTwice
    /\ inSnap[argRow.v + 1][argCol.v + 1] = 4
    /\ Output[argRow.v + 1][argCol.v + 1] = 5
    /\ Cardinality(EntriesFor(argRow.v + 1, argCol.v + 1)) = 2

(* C29: the ripple rules apply to negative values as to positive ones: an
   evaluated value that is a negative multiple of 3 decrements an existing,
   unlocked right neighbour, and a negative multiple of 5 adds 2 to an
   existing, unlocked below neighbour *)
C29_NegativeMultiplesRipple ==
    /\ \A k \in 1..Len(log) :
          (CallDone /\ outcome = "returned" /\ ~log[k].skipped /\ log[k].value < 0) =>
              /\ (/\ log[k].value % 3 = 0
                  /\ log[k].col + 1 <= 2
                  /\ Output[log[k].row][IF log[k].col < 2 THEN log[k].col + 1 ELSE 2] < 15)
                    => log[k].right
              /\ (/\ log[k].value % 5 = 0
                  /\ log[k].row + 1 <= 2
                  /\ Output[IF log[k].row < 2 THEN log[k].row + 1 ELSE 2][log[k].col] < 15)
                    => log[k].below
    /\ (CallDone /\ Accepted /\ mode = "single" /\ NewValue < 0) =>
          /\ (NewValue % 3 = 0 /\ argCol.v < 2 /\ inSnap[argRow.v][IF argCol.v < 2 THEN argCol.v + 1 ELSE 2] < 15)
                => Output[argRow.v][argCol.v + 1] = inSnap[argRow.v][argCol.v + 1] - 1
          /\ (NewValue % 5 = 0 /\ argRow.v < 2 /\ inSnap[IF argRow.v < 2 THEN argRow.v + 1 ELSE 2][argCol.v] < 15)
                => Output[argRow.v + 1][argCol.v] = inSnap[argRow.v + 1][argCol.v] + 2

\* a right neighbour brought to -3 decremented its own right neighbour, and a
\* below neighbour brought to -5 added 2 to the cell below it
C29_Witness ==
    /\ CallDone
    /\ mode = "cascade"
    /\ \E k \in 2..Len(log) : log[k].value = -3 /\ log[k].right
    /\ \E k \in 2..Len(log) : log[k].value = -5 /\ log[k].below

\* the grids a session has gone through, the one it holds now included
Trajectory(id) ==
    Append(sessions[id].hist,
           IF id = active THEN GridContent(rowmem, outer, gridRef) ELSE sessions[id].grid)

(* C27: the engine keeps no state across calls, the result of updateGrid
   depends only on (grid, row, col): two sessions that start on equal grids
   and make the same clicks go through the same sequence of grids however
   their clicks are interleaved, the order in which one of them runs alone
   first included *)
C27_InterleavedSessionsIndependent ==
    (pc = "idle" /\ DOMAIN sessions = {1, 2}) =>
        \A k \in 1..Len(Trajectory(1)) :
            k <= Len(Trajectory(2)) => Trajectory(1)[k] = Trajectory(2)[k]

\* both sessions have made all their clicks, alternating, and hold equal grids
\* that differ from the grid they started on
C27_Witness ==
    /\ pc = "idle"
    /\ DOMAIN sessions = {1, 2}
    /\ mode = "cascade"
    /\ Len(Trajectory(1)) = PairClicks + 1
    /\ Len(Trajectory(2)) = PairClicks + 1
    /\ Trajectory(1)[PairClicks + 1] = Trajectory(2)[PairClicks + 1]
    /\ Trajectory(1)[PairClicks + 1] # Trajectory(1)[1]
    /\ Trajectory(1)[2] # Trajectory(1)[1]

\* the working copy's cell (i, j) while the cascading loop runs
Working(rm, i, j) == Cell(rm, outer, newGrid, i, j)

\* how many steps right and down the k-th evaluated cell lies from the click
StepsFromClick(k) == (log[k].row - argRow.v) + (log[k].col - argCol.v)

(* C31: in the cascading variant no cell is written after it was processed:
   a processed cell keeps its value during the rest of the loop, the value a
   cell's rules were evaluated on is its value in the returned grid, and the
   cells are evaluated in the order of their distance from the clicked cell *)
C31_NoWriteAfterProcessed ==
    /\ [][(mode = "cascade" /\ pc = "loop" /\ pc' = "loop") =>
             \A p \in processed :
                 Working(rowmem', p[1], p[2]) = Working(rowmem, p[1], p[2])]_vars
    /\ [](\A k \in 1..Len(log) :
             (CallDone /\ mode = "cascade" /\ outcome = "returned" /\ ~log[k].skipped)
                 => log[k].value = Output[log[k].row][log[k].col])
    /\ [](\A k \in 1..Len(log) : \A m \in 1..Len(log) :
             (mode = "cascade" /\ k < m) => StepsFromClick(k) <= StepsFromClick(m))

\* the cell diagonally below-right of the click received both its deltas, was
\* then evaluated on the value it has in the returned grid, and fired a rule
C31_Witness ==
    /\ CallDone
    /\ Accepted
    /\ mode = "cascade"
    /\ outcome = "returned"
    /\ \E k \in EntriesFor(argRow.v, argCol.v + 1) : log[k].below
    /\ \E k \in EntriesFor(argRow.v + 1, argCol.v) : log[k].right
    /\ \E k \in EntriesFor(argRow.v + 1, argCol.v + 1) :
          /\ ~log[k].skipped
          /\ log[k].value = inSnap[argRow.v + 1][argCol.v + 1] + 1
          /\ log[k].value = Output[argRow.v + 1][argCol.v + 1]
          /\ (log[k].right \/ log[k].below)

\* the cells a click at (row, col) may change in the single-step variant
ClickAndNeighbours(row, col) == {<<row, col>>, <<row, col + 1>>, <<row + 1, col>>}

(* C32: a click at (row, col) changes only cells at or right-and-below the
   click: in the cascading variant every changed cell (i, j) has i >= row and
   j >= col, in the single-step variant it is (row, col), (row, col+1) or
   (row+1, col); cells above or to the left keep their values *)
C32_ChangesOnlyRightAndBelow ==
    \A i \in Idx : \A j \in Idx :
        (inRef # 0 /\ Latest[i][j] # inSnap[i][j]) =>
            /\ ~OutOfBounds(argRow, argCol)
            /\ i >= argRow.v
            /\ j >= argCol.v
            /\ mode = "single" => <<i, j>> \in ClickAndNeighbours(argRow.v, argCol.v)

\* a cascading click at the centre changed the bottom-right corner and none of
\* the five cells above or left of the centre
C32_Witness ==
    /\ CallDone
    /\ mode = "cascade"
    /\ argRow = Num(1)
    /\ argCol = Num(1)
    /\ Output[2][2] # inSnap[2][2]
    /\ Output[1][1] = inSnap[1][1] + 1
    /\ \A i \in Idx : \A j \in Idx : (i < 1 \/ j < 1) => Output[i][j] = inSnap[i][j]

\* both variants have returned for the same grid and click
BothDone == CallDone /\ mode = "cascade" /\ api.op = "updateGrid"

\* the ripple changed the cell (i, j) of the single-step result and left it
\* holding a nonzero multiple of 3 or of 5
RippledIntoMultiple(i, j) ==
    /\ i \in Idx
    /\ j \in Idx
    /\ LET v == api.ret[IF i \in Idx THEN i ELSE 0][IF j \in Idx THEN j ELSE 0]
       IN /\ v # inSnap[IF i \in Idx THEN i ELSE 0][IF j \in Idx THEN j ELSE 0]
          /\ v # 0
          /\ (v % 3 = 0 \/ v % 5 = 0)

(* C33: for the same grid and click the single-step and the cascading variant
   return grids that agree on the clicked cell, on its right neighbour, on
   its below neighbour and on every cell outside the lower-right quadrant of
   the click; they are equal whenever no ripple-modified neighbour ends with
   a nonzero multiple of 3 or 5 *)
C33_VariantsAgreeNearClick ==
    BothDone =>
        /\ api.outcome = outcome
        /\ api.sameRef = (outRef = inRef)
        /\ IF OutOfBounds(argRow, argCol)
           THEN api.ret = Output
           ELSE LET r == argRow.v
                    c == argCol.v
                IN /\ \A i \in Idx : \A j \in Idx :
                         (\/ <<i, j>> \in {<<r, c>>, <<r, c + 1>>, <<r + 1, c>>}
                          \/ i < r
                          \/ j < c) => api.ret[i][j] = Output[i][j]
                   /\ (~RippledIntoMultiple(r, c + 1) /\ ~RippledIntoMultiple(r + 1, c))
                         => api.ret = Output

\* the variants returned different grids: both neighbours were rippled into
\* multiples and the cascade went on into the diagonal cell
C33_Witness ==
    /\ BothDone
    /\ Accepted
    /\ api.ret # Output
    /\ RippledIntoMultiple(argRow.v, argCol.v + 1)
    /\ RippledIntoMultiple(argRow.v + 1, argCol.v)
    /\ api.ret[argRow.v + 1][argCol.v + 1] = inSnap[argRow.v + 1][argCol.v + 1]
    /\ Output[argRow.v + 1][argCol.v + 1] # inSnap[argRow.v + 1][argCol.v + 1]

(* C34: on every accepted click, in both variants, the clicked cell's value
   in the returned grid is its input value plus 1, whatever ripples the click
   caused: no ripple of the same click writes the clicked cell *)
C34_ClickedCellPlusOne ==
    /\ (CallDone /\ Accepted /\ outcome = "returned")
          => Output[argRow.v][argCol.v] = inSnap[argRow.v][argCol.v] + 1
    /\ \A k \in 1..Len(log) :
          (log[k].right => <<log[k].row, log[k].col + 1>> # <<argRow.v, argCol.v>>)
          /\ (log[k].below => <<log[k].row + 1, log[k].col>> # <<argRow.v, argCol.v>>)

\* a cascading click whose ripples went on from both neighbours left the
\* clicked cell at its input value plus 1
C34_Witness ==
    /\ CallDone
    /\ Accepted
    /\ mode = "cascade"
    /\ Len(log) >= 4
    /\ \E k \in 2..Len(log) : log[k].right
    /\ \E k \in 2..Len(log) : log[k].below
    /\ Output[argRow.v][argCol.v] = inSnap[argRow.v][argCol.v] + 1

\* the cell (i, j) waits in the queue
Queued(q, i, j) == \E k \in 1..Len(q) : q[k].row = i /\ q[k].col = j

\* the evaluation a step of the loop has just recorded
Evaluated == log'[Len(log')]

\* this step evaluates a cell that a ripple of this click raised to 15
EvaluatesLifted ==
    /\ mode = "cascade"
    /\ pc = "loop"
    /\ Len(log') = Len(log) + 1
    /\ ~Evaluated.skipped
    /\ ~Evaluated.isOriginalClick
    /\ Evaluated.value = 15
    /\ inSnap[Evaluated.row][Evaluated.col] < 15

(* C36: in the cascading variant a cell's own locked status does not
   suppress its outgoing ripples: a neighbour lifted from 13 to 15 by a +2
   ripple is enqueued, and when it is processed in the same click it
   decrements its unlocked right neighbour by 1 and adds 2 to its unlocked
   below neighbour, while it stays at 15 itself *)
C36_LockedCellStillRipples ==
    /\ [][(/\ mode = "cascade"
           /\ pc = "loop"
           /\ Len(log') = Len(log) + 1
           /\ Evaluated.below
           /\ Working(rowmem, Evaluated.row + 1, Evaluated.col) = 13)
            => /\ Working(rowmem', Evaluated.row + 1, Evaluated.col) = 15
               /\ Queued(queue', Evaluated.row + 1, Evaluated.col)]_vars
    /\ [][EvaluatesLifted =>
            LET i == Evaluated.row
                j == Evaluated.col
            IN /\ Working(rowmem', i, j) = 15
               /\ (j < 2 /\ Working(rowmem, i, j + 1) < 15)
                     => /\ Working(rowmem', i, j + 1) = Working(rowmem, i, j + 1) - 1
                        /\ Queued(queue', i, j + 1)
               /\ (i < 2 /\ Working(rowmem, i + 1, j) < 15)
                     => /\ Working(rowmem', i + 1, j) = Working(rowmem, i + 1, j) + 2
                        /\ Queued(queue', i + 1, j)]_vars

\* a below neighbour that held 13 was evaluated at 15 and fired both rules
C36_Witness ==
    /\ CallDone
    /\ mode = "cascade"
    /\ outcome = "returned"
    /\ \E k \in 2..Len(log) :
          /\ log[k].value = 15
          /\ ~log[k].isOriginalClick
          /\ inSnap[log[k].row][log[k].col] = 13
          /\ log[k].right
          /\ log[k].below
          /\ Output[log[k].row][log[k].col] = 15

\* all nine cells of the newest grid hold 15 or more
AllNineLocked == \A i \in Idx : \A j \in Idx : Latest[i][j] >= 15

\* what the cells of a grid still lack to 15, a cell counting GridSize + 1 times
\* as much as the cell to its right: a click adds 1 to its cell and takes 1
\* from at most GridSize cells in each column to the right
ColumnWeight(j) == (GridSize + 1) ^ (GridSize - 1 - j)

RECURSIVE LackingUpTo(_, _)
LackingUpTo(grid, k) ==
    IF k = 0 THEN 0
    ELSE LET i == (k - 1) \div GridSize
             j == (k - 1) % GridSize
         IN (IF grid[i][j] < 15 THEN ColumnWeight(j) * (15 - grid[i][j]) ELSE 0)
            + LackingUpTo(grid, k - 1)

Lacking(grid) == LackingUpTo(grid, GridSize * GridSize)

\* an accepted click returns a grid that lacks less than the one it was given
ClickLowersLacking ==
    (CallDone /\ Accepted /\ outcome = "returned") => Lacking(Output) < Lacking(inSnap)

(* C37: from the all-zero grid, in either variant, there is no infinite
   sequence of accepted clicks: a click on a cell holding less than 15 is
   accepted and brings the grid closer to the all-locked one, a play that
   keeps clicking unlocked cells reaches a grid whose nine cells are locked
   and stays there, and a click on that grid is a no-op *)
C37_PlayEndsAllLocked ==
    /\ [](clicksLeft > 0)
    /\ []((CallDone /\ Accepted) =>
             /\ outcome = "returned"
             /\ outRef # inRef
             /\ Output[argRow.v][argCol.v] = inSnap[argRow.v][argCol.v] + 1)
    /\ []ClickLowersLacking
    /\ []((CallDone /\ TargetLocked) =>
             /\ outRef = inRef
             /\ Output = inSnap)
    /\ <>[]AllNineLocked

\* a cascading play has locked all nine cells, one of them at 16, and the
\* click tried after that returned the same grid
C37_Witness ==
    /\ CallDone
    /\ mode = "cascade"
    /\ plan.style = "cycle"
    /\ AllNineLocked
    /\ outRef = inRef
    /\ clicksLeft < MaxPlay - 100
    /\ \E i \in Idx : \E j \in Idx : Output[i][j] = 16

\* the step just taken recorded an evaluation whose below rule wrote (i, j)
BelowRuleWrote(i, j) ==
    /\ log' # <<>>
    /\ log' # log
    /\ ~log'[Len(log')].skipped
    /\ log'[Len(log')].below
    /\ log'[Len(log')].row = i - 1
    /\ log'[Len(log')].col = j

(* C35: from the all-zero grid, after any sequence of clicks in either
   variant, no cell value exceeds 16; a cell comes to hold 16 only when a +2
   ripple is written into it while it holds 14, and a click never raises the
   clicked cell above 15 *)
C35_NoValueAboveSixteen ==
    /\ [](\A i \in Idx : \A j \in Idx : Latest[i][j] <= 16)
    /\ [][\A i \in Idx : \A j \in Idx :
            (Latest'[i][j] = 16 /\ Latest[i][j] # 16) =>
                /\ Latest[i][j] = 14
                /\ BelowRuleWrote(i, j)]_vars
    /\ []((CallDone /\ Accepted) => Output[argRow.v][argCol.v] <= 15)

\* a play's click raised a cell from 14 to 15, and the +2 ripple of that click
\* raised the cell below it from 14 to 16
C35_Witness ==
    /\ CallDone
    /\ Accepted
    /\ argRow.v < 2
    /\ inSnap[argRow.v][argCol.v] = 14
    /\ Output[argRow.v][argCol.v] = 15
    /\ inSnap[IF argRow.v < 2 THEN argRow.v + 1 ELSE 2][argCol.v] = 14
    /\ Output[IF argRow.v < 2 THEN argRow.v + 1 ELSE 2][argCol.v] = 16

====
